---------------------------- MODULE Spec2Model ----------------------------
(***************************************************************************)
(* A model of the coherent_benchmarks orchestration code.                  *)
(*                                                                         *)
(*   Spec        noxfile.py: the registration loop that builds the matrix  *)
(*               of (package, case) cells and the body of one              *)
(*               benchmark_session per cell, run one after the other.      *)
(*   SpecRunner  runners/numbacs_runner.py and runners/dynlab_runner.py    *)
(*               with the benchmark functions they call: one invocation    *)
(*               of a direct-invocation runner on one config string.       *)
(*   SpecMatlab  runners/matlab_runner.py: one invocation of the           *)
(*               external-interpreter runner.                              *)
(*   SpecLoad    src/readme_updater.py: load_benchmark_data.               *)
(*   SpecTables  src/readme_updater.py: generate_md_tables.                *)
(*   SpecSplice  src/readme_updater.py: assemble_and_update_readme.        *)
(*   SpecReport  src/readme_updater.py: main, which runs the three.        *)
(*   SpecRerun   noxfile.py invoked more than once.                        *)
(***************************************************************************)
EXTENDS Integers, Sequences, FiniteSets, TLC

VARIABLES
    \* ---- noxfile.py ----
    supported,      \* PACKAGES_CONFIG[pkg]["supported_cases"]
    lcstoolEnv,     \* os.getenv("LCSTOOL_PATH") is set
    loopPos,        \* position of the registration loop over (package, case)
    sessions,       \* the registered sessions, in registration order
    skipLog,        \* the pairs for which "Skipping ..." was printed
    cur,            \* index of the session nox is running
    spc,            \* position inside the running benchmark_session
    started,        \* cell -> number of times its session body was entered
    runnerCalls,    \* cell -> number of session.run calls of its runner
    outcome,        \* cell -> "pending" | "ok" | "failed"
    runResult,      \* result of the external runner, kept across the finally
    tmpFiles,       \* cells whose temporary config file exists on disk
    tmpCreated,     \* cells whose temporary config file was ever created
    warned,         \* cells whose session called session.warn
    sessionNames,   \* the name= of each registered session, in registration order
    outPaths,       \* cell -> the output_json_path_abs of each run of its body
    noxRun,         \* which invocation of nox this is
    \* ---- runners/*_runner.py and src/benchmarks/*.py ----
    runner,         \* "numbacs" | "dynlab"
    cfg,            \* the --run-config-json argument, as parsed content
    rpc,            \* position of the runner
    stagesDone,     \* the stages completed, in order
    execs,          \* the compute executions made, in order
    loopTimes,      \* loop_times: one duration per completed outer repeat
    warmupTime,     \* warmup_time (0 until the warmup has been timed)
    results,        \* the results dict being built
    fs,             \* path -> document on disk
    exitCode,       \* -1 while running, then the process exit status
    err,            \* the exception caught by main's except clause
    envFailed,      \* an environment failure (compute, I/O) was injected
    errAttempt,     \* where the except clause tried to write the ErrorDocument
    \* ---- runners/matlab_runner.py ----
    margs,          \* the command line, the files it names and the MATLAB process
    mpc,            \* position of the external-interpreter runner
    mtimeout,       \* timeout_seconds handed to subprocess.run
    mproc,          \* what became of the MATLAB subprocess
    mexc,           \* the exception raised inside run_matlab_benchmark
    mescaped,       \* that exception left run_matlab_benchmark
    mreturn,        \* return value of run_matlab_benchmark
    mexit,          \* -1 while running, then the process exit status
    mresult,        \* what is on disk at the cell's output_json_path
    \* ---- src/readme_updater.py: load_benchmark_data ----
    dir,            \* the results directory: its files, in the order glob gives
    lpc,            \* position of load_benchmark_data
    lpos,           \* index in json_files of the file the loop is at
    allData,        \* all_data: the records appended so far
    loadedFrom,     \* for each record of all_data, the index in dir of its file
    lraised,        \* an exception left load_benchmark_data
    \* ---- src/readme_updater.py: generate_md_tables ----
    df,             \* the DataFrame: the records, in row order
    tpc,            \* position of generate_md_tables
    caseQueue,      \* sorted_case_ids not yet visited
    mdFiles,        \* case id -> the section file {case_id}_benchmark_section.md
    generated,      \* generated_file_paths, by case id
    \* ---- src/readme_updater.py: assemble_and_update_readme ----
    readme,         \* the host document on disk
    tableFiles,     \* what is on disk at each of sorted_table_filepaths
    splpc,          \* position of assemble_and_update_readme
    splLocal,       \* its locals: the joined content and the text read
    splLog,         \* one entry per finished call: result and whether it wrote
    \* ---- src/readme_updater.py: main ----
    mainpc,         \* position of main
    mainMode,       \* args.mode
    mainOut,        \* what main printed last: its closing message
    mainExit        \* -1 while running, then the process exit status

idVars == <<sessionNames, outPaths, noxRun>>
noxVars == <<supported, lcstoolEnv, loopPos, sessions, skipLog, cur, spc, started,
             runnerCalls, outcome, runResult, tmpFiles, tmpCreated, warned, idVars>>
runVars == <<runner, cfg, rpc, stagesDone, execs, loopTimes, warmupTime, results,
             fs, exitCode, err, envFailed, errAttempt>>
matVars == <<margs, mpc, mtimeout, mproc, mexc, mescaped, mreturn, mexit, mresult>>
loadVars == <<dir, lpc, lpos, allData, loadedFrom, lraised>>
tabVars == <<df, tpc, caseQueue, mdFiles, generated>>
splVars == <<readme, tableFiles, splpc, splLocal, splLog>>
mainVars == <<mainpc, mainMode, mainOut, mainExit>>
repVars == <<loadVars, tabVars, splVars, mainVars>>
toolVars == <<matVars, repVars>>
vars == <<noxVars, runVars, toolVars>>

None == "none"

(***************************************************************************)
(* The variables of matlab_runner.py while another program is modelled     *)
(***************************************************************************)
MatlabIdle ==
    /\ margs = None
    /\ mpc = "off"
    /\ mtimeout = 0
    /\ mproc = None
    /\ mexc = None
    /\ mescaped = FALSE
    /\ mreturn = None
    /\ mexit = 0 - 1
    /\ mresult = None

(***************************************************************************)
(* The variables of readme_updater.py while another program is modelled    *)
(***************************************************************************)
LoadIdle ==
    /\ dir = <<>>
    /\ lpc = "off"
    /\ lpos = 0
    /\ allData = <<>>
    /\ loadedFrom = <<>>
    /\ lraised = FALSE

TablesIdle ==
    /\ df = <<>>
    /\ tpc = "off"
    /\ caseQueue = <<>>
    /\ mdFiles = None
    /\ generated = <<>>

SpliceIdle ==
    /\ readme = None
    /\ tableFiles = <<>>
    /\ splpc = "off"
    /\ splLocal = None
    /\ splLog = <<>>

MainIdle ==
    /\ mainpc = "off"
    /\ mainMode = None
    /\ mainOut = None
    /\ mainExit = 0 - 1

ReportIdle == LoadIdle /\ TablesIdle /\ SpliceIdle /\ MainIdle

ToolsIdle == MatlabIdle /\ ReportIdle

(***************************************************************************)
(* noxfile.py: the tables                                                  *)
(***************************************************************************)
\* PACKAGES_CONFIG.items(), in insertion order
PackageOrder == <<"NumbaCS", "Dynlab", "LCStool">>
\* BENCHMARK_CASES.items(), in insertion order
CaseOrder == <<"dg_ftle", "qge_ftle">>

Packages == {PackageOrder[i] : i \in 1..Len(PackageOrder)}
Cases == {CaseOrder[i] : i \in 1..Len(CaseOrder)}
NumPairs == Len(PackageOrder) * Len(CaseOrder)

\* BENCHMARK_CASES[case]["flow_type"]
CaseFlowType(c) == IF c = "dg_ftle" THEN "predefined" ELSE "data"

\* PACKAGES_CONFIG["LCStool"]["matlab_scripts_map"].get(flow_type)
MatlabScript(ft) ==
    CASE ft = "predefined" -> "lcstool_dg_benchmark.m"
      [] ft = "data" -> "lcstool_data_benchmark.m"
      [] OTHER -> None

\* pkg_name.lower()
Lower(p) ==
    CASE p = "NumbaCS" -> "numbacs"
      [] p = "Dynlab" -> "dynlab"
      [] p = "LCStool" -> "lcstool"
      [] OTHER -> p

\* Names are kept as the sequence of their pieces: runs of letters and the
\* characters that join them.  _case_id as such a sequence
CaseIdText(c) ==
    CASE c = "dg_ftle" -> <<"dg", "_", "ftle">>
      [] c = "qge_ftle" -> <<"qge", "_", "ftle">>

\* os.path.abspath("./results")
RESULTS_DIR == <<"results">>

\* f"bench-{_pkg_name.lower()}-{_case_id}"
SessionName(cell) == <<"bench", "-", Lower(cell[1]), "-">> \o CaseIdText(cell[2])

\* f"{pkg_name}_{case_id}_results.json", pkg_name being pkg_name.lower()
OutputFilenameCaseOnly(cell) == CaseIdText(cell[2]) \o <<"_", "results", ".json">>
OutputFilename(cell) ==
    <<Lower(cell[1]), "_">> \o CaseIdText(cell[2]) \o <<"_", "results", ".json">>

\* os.path.join(RESULTS_DIR, output_filename)
OutputPath(cell) == RESULTS_DIR \o <<"/">> \o OutputFilename(cell)

\* The n-th pair visited by the nested loops: packages outside, cases inside.
PairAt(n) ==
    <<PackageOrder[((n - 1) \div Len(CaseOrder)) + 1],
      CaseOrder[((n - 1) % Len(CaseOrder)) + 1]>>

AllPairs == {PairAt(n) : n \in 1..NumPairs}

\* if _case_id not in _pkg_config["supported_cases"]: ... continue
IsSupportedAlways(p, c) == TRUE
IsSupported(p, c) == c \in supported[p]

\* The branch of benchmark_session taken for a package.
Strategy(p) ==
    CASE Lower(p) \in {"numbacs", "dynlab"} -> "direct"
      [] Lower(p) = "lcstool" -> "external"
      [] OTHER -> "undefined"

(***************************************************************************)
(* noxfile.py: the registration loop                                       *)
(***************************************************************************)
Registering == loopPos <= NumPairs

\* the pair is supported: @nox.session registers benchmark_session for it
RegisterCell ==
    /\ Registering
    /\ IsSupported(PairAt(loopPos)[1], PairAt(loopPos)[2])
    /\ sessions' = Append(sessions, PairAt(loopPos))
    /\ sessionNames' = Append(sessionNames, SessionName(PairAt(loopPos)))
    /\ loopPos' = loopPos + 1
    /\ UNCHANGED <<supported, lcstoolEnv, skipLog, cur, spc, started, runnerCalls,
                   outcome, runResult, tmpFiles, tmpCreated, warned>>
    /\ UNCHANGED <<outPaths, noxRun, runVars, toolVars>>

\* the pair is not supported: print the diagnostic and continue
SkipPair ==
    /\ Registering
    /\ ~IsSupported(PairAt(loopPos)[1], PairAt(loopPos)[2])
    /\ skipLog' = Append(skipLog, PairAt(loopPos))
    /\ loopPos' = loopPos + 1
    /\ UNCHANGED <<supported, lcstoolEnv, sessions, cur, spc, started, runnerCalls,
                   outcome, runResult, tmpFiles, tmpCreated, warned>>
    /\ UNCHANGED <<idVars, runVars, toolVars>>

(***************************************************************************)
(* noxfile.py: one benchmark_session, and nox running them in order        *)
(***************************************************************************)
CurCell == sessions[cur]

\* The session nox runs after session i has ended with result r: every
\* cell is a session of its own, so the next one runs whatever r is.
NextSessionStopOnFailure(i, r) == IF r = "failed" THEN Len(sessions) + 1 ELSE i + 1
NextSession(i, r) == i + 1

\* The session body returns or raises: nox records the result and moves on.
EndSession(r) ==
    /\ outcome' = [outcome EXCEPT ![CurCell] = r]
    /\ cur' = NextSession(cur, r)
    /\ spc' = "idle"

\* nox enters the body of the next registered session
NoxStartSession ==
    /\ ~Registering
    /\ spc = "idle"
    /\ cur <= Len(sessions)
    /\ started' = [started EXCEPT ![CurCell] = @ + 1]
    /\ spc' = "install"
    /\ UNCHANGED <<supported, lcstoolEnv, loopPos, sessions, skipLog, cur, runnerCalls,
                   outcome, runResult, tmpFiles, tmpCreated, warned>>
    /\ UNCHANGED <<idVars, runVars, toolVars>>

\* session.install / session.conda_install, ensure_results_dir, final_run_config
SessionInstall ==
    /\ spc = "install"
    /\ \E ok \in BOOLEAN :
         IF ok
         THEN /\ spc' = "dispatch"
              /\ outPaths' = [outPaths EXCEPT ![CurCell] = Append(@, OutputPath(CurCell))]
              /\ UNCHANGED <<cur, outcome>>
         ELSE /\ EndSession("failed")
              /\ UNCHANGED outPaths
    /\ UNCHANGED <<supported, lcstoolEnv, loopPos, sessions, skipLog, started,
                   runnerCalls, runResult, tmpFiles, tmpCreated, warned>>
    /\ UNCHANGED <<sessionNames, noxRun, runVars, toolVars>>

\* if pkg_name in ["numbacs", "dynlab"]: session.run(runner, inline JSON)
DispatchDirect ==
    /\ spc = "dispatch"
    /\ Strategy(CurCell[1]) = "direct"
    /\ runnerCalls' = [runnerCalls EXCEPT ![CurCell] = @ + 1]
    /\ \E status \in {"exit0", "nonzero"} :
         EndSession(IF status = "exit0" THEN "ok" ELSE "failed")
    /\ UNCHANGED <<supported, lcstoolEnv, loopPos, sessions, skipLog, started,
                   runResult, tmpFiles, tmpCreated, warned>>
    /\ UNCHANGED <<idVars, runVars, toolVars>>

\* The external branch goes on to the temporary file.
ExternalReadyNoEnvCheck(cell) ==
    /\ Strategy(cell[1]) = "external"
    /\ MatlabScript(CaseFlowType(cell[2])) # None
ExternalReady(cell) ==
    /\ Strategy(cell[1]) = "external"
    /\ lcstoolEnv
    /\ MatlabScript(CaseFlowType(cell[2])) # None

\* session.warn(...) and return: LCSTOOL_PATH unset, no MATLAB script for the
\* flow type, or no runner logic for the package
DispatchWarnReturn ==
    /\ spc = "dispatch"
    /\ Strategy(CurCell[1]) # "direct"
    /\ ~ExternalReady(CurCell)
    /\ warned' = warned \cup {CurCell}
    /\ EndSession("ok")
    /\ UNCHANGED <<supported, lcstoolEnv, loopPos, sessions, skipLog, started,
                   runnerCalls, runResult, tmpFiles, tmpCreated>>
    /\ UNCHANGED <<idVars, runVars, toolVars>>

\* with tempfile.NamedTemporaryFile(..., delete=False, ...) as tmp_f:
\* the file is created on entry, or the creation raises
TmpCreate ==
    /\ spc = "dispatch"
    /\ ExternalReady(CurCell)
    /\ \E ok \in BOOLEAN :
         IF ok
         THEN /\ tmpFiles' = tmpFiles \cup {CurCell}
              /\ tmpCreated' = tmpCreated \cup {CurCell}
              /\ spc' = "tmp_dump"
              /\ UNCHANGED <<cur, outcome>>
         ELSE /\ EndSession("failed")
              /\ UNCHANGED <<tmpFiles, tmpCreated>>
    /\ UNCHANGED <<supported, lcstoolEnv, loopPos, sessions, skipLog, started,
                   runnerCalls, runResult, warned>>
    /\ UNCHANGED <<idVars, runVars, toolVars>>

\* json.dump(final_run_config, tmp_f, indent=2) inside the with block, which
\* is not inside the try: when it raises, the file (delete=False) stays
TmpDump ==
    /\ spc = "tmp_dump"
    /\ \E ok \in BOOLEAN :
         IF ok
         THEN /\ spc' = "run_ext"
              /\ UNCHANGED <<cur, outcome>>
         ELSE EndSession("failed")
    /\ UNCHANGED <<supported, lcstoolEnv, loopPos, sessions, skipLog, started,
                   runnerCalls, runResult, tmpFiles, tmpCreated, warned>>
    /\ UNCHANGED <<idVars, runVars, toolVars>>

\* try: session.run(runner, "--matlab-script", ..., "--run-config-json-path", tmp)
\* matlab_runner.py exits non-zero on a non-zero status and on a timeout
RunExternal ==
    /\ spc = "run_ext"
    /\ runnerCalls' = [runnerCalls EXCEPT ![CurCell] = @ + 1]
    /\ \E status \in {"exit0", "nonzero", "timeout"} : runResult' = status
    /\ spc' = "finally"
    /\ UNCHANGED <<supported, lcstoolEnv, loopPos, sessions, skipLog, cur, started,
                   outcome, tmpFiles, tmpCreated, warned>>
    /\ UNCHANGED <<idVars, runVars, toolVars>>

\* finally: if os.path.exists(tmp): os.remove(tmp)
RemoveTmp(files, cell) == files \ {cell}

Finally ==
    /\ spc = "finally"
    /\ tmpFiles' = RemoveTmp(tmpFiles, CurCell)
    /\ runResult' = None
    /\ EndSession(IF runResult = "exit0" THEN "ok" ELSE "failed")
    /\ UNCHANGED <<supported, lcstoolEnv, loopPos, sessions, skipLog, started,
                   runnerCalls, tmpCreated, warned>>
    /\ UNCHANGED <<idVars, runVars, toolVars>>

NoxDone == ~Registering /\ spc = "idle" /\ cur > Len(sessions)

(***************************************************************************)
(* The runner's variables while the orchestrator is modelled               *)
(***************************************************************************)
RunnerIdle ==
    /\ runner = None
    /\ cfg = None
    /\ rpc = "off"
    /\ stagesDone = <<>>
    /\ execs = <<>>
    /\ loopTimes = <<>>
    /\ warmupTime = 0
    /\ results = None
    /\ fs = None
    /\ exitCode = 0 - 1
    /\ err = None
    /\ envFailed = FALSE
    /\ errAttempt = None

Init ==
    /\ supported \in [Packages -> SUBSET Cases]
    /\ lcstoolEnv \in BOOLEAN
    /\ loopPos = 1
    /\ sessions = <<>>
    /\ skipLog = <<>>
    /\ cur = 1
    /\ spc = "idle"
    /\ started = [c \in AllPairs |-> 0]
    /\ runnerCalls = [c \in AllPairs |-> 0]
    /\ outcome = [c \in AllPairs |-> "pending"]
    /\ runResult = None
    /\ tmpFiles = {}
    /\ tmpCreated = {}
    /\ warned = {}
    /\ sessionNames = <<>>
    /\ outPaths = [c \in AllPairs |-> <<>>]
    /\ noxRun = 1
    /\ RunnerIdle
    /\ ToolsIdle

Next ==
    \/ RegisterCell
    \/ SkipPair
    \/ NoxStartSession
    \/ SessionInstall
    \/ DispatchDirect
    \/ DispatchWarnReturn
    \/ TmpCreate
    \/ TmpDump
    \/ RunExternal
    \/ Finally

Spec == Init /\ [][Next]_vars

(***************************************************************************)
(* Numbers: the runner's times are floats.  A float is kept exactly, as a  *)
(* fraction n/d in lowest terms with d > 0; d = 0 stands for the values    *)
(* numpy gives a division by zero: inf (n = 1), -inf (n = -1), nan (n = 0).*)
(***************************************************************************)
Abs(x) == IF x < 0 THEN 0 - x ELSE x

RECURSIVE GCD(_, _)
GCD(a, b) == IF b = 0 THEN a ELSE GCD(b, a % b)

Rat(n, d) ==
    LET g == GCD(Abs(n), Abs(d))
        s == IF d < 0 THEN 0 - 1 ELSE 1
    IN  [n |-> (s * n) \div g, d |-> (s * d) \div g]

Zero == [n |-> 0, d |-> 1]
Inf == [n |-> 1, d |-> 0]
NegInf == [n |-> 0 - 1, d |-> 0]
NaN == [n |-> 0, d |-> 0]
IsFinite(x) == x.d # 0
FromInt(i) == [n |-> i, d |-> 1]

\* x + y on floats
NpAdd(x, y) ==
    CASE IsFinite(x) /\ IsFinite(y) -> Rat(x.n * y.d + y.n * x.d, x.d * y.d)
      [] x = NaN \/ y = NaN -> NaN
      [] IsFinite(x) -> y
      [] IsFinite(y) -> x
      [] x = y -> x
      [] OTHER -> NaN

\* x - y and x * y on finite floats
RatSub(x, y) == Rat(x.n * y.d - y.n * x.d, x.d * y.d)
RatMul(x, y) == Rat(x.n * y.n, x.d * y.d)

\* numpy's array / int: a division by zero gives inf or nan, with a warning
NpDivide(x, k) ==
    CASE ~IsFinite(x) -> IF k = 0 THEN NaN ELSE IF k > 0 THEN x ELSE [x EXCEPT !.n = 0 - @]
      [] k = 0 -> IF x.n = 0 THEN NaN ELSE IF x.n > 0 THEN Inf ELSE NegInf
      [] OTHER -> Rat(x.n, x.d * k)

RECURSIVE NpSum(_)
NpSum(xs) == IF xs = <<>> THEN Zero ELSE NpAdd(xs[1], NpSum(Tail(xs)))

\* np.mean
NpMean(xs) == NpDivide(NpSum(xs), Len(xs))

\* the sample standard deviation (divisor n - 1), kept as its square
NpStdSample(xs) ==
    IF \E i \in 1..Len(xs) : ~IsFinite(xs[i])
    THEN [sq |-> NaN]
    ELSE LET m == NpMean(xs)
             dev == [i \in 1..Len(xs) |-> RatMul(RatSub(xs[i], m), RatSub(xs[i], m))]
         IN  [sq |-> NpDivide(NpSum(dev), Len(xs) - 1)]

\* np.std (population standard deviation), kept as its square
NpStd(xs) ==
    IF \E i \in 1..Len(xs) : ~IsFinite(xs[i])
    THEN [sq |-> NaN]
    ELSE LET m == NpMean(xs)
             dev == [i \in 1..Len(xs) |-> RatMul(RatSub(xs[i], m), RatSub(xs[i], m))]
         IN  [sq |-> NpMean(dev)]

\* the literal 0.0 stored as a standard deviation
StdZero == [sq |-> Zero]

(***************************************************************************)
(* The --run-config-json argument                                          *)
(***************************************************************************)
MaxIter == 2
MaxRuns == 2
MaxDur == 2

AllFlowKeys == {"flow_str", "grid_shape", "domain", "t0", "T", "dt0", "vel_data_paths"}
\* flow_data with every key, or with one key left out
FlowKeySets == {AllFlowKeys} \cup {AllFlowKeys \ {k} : k \in AllFlowKeys}

\* the keys main reads with run_config[...], in the order it reads them
TopKeys == <<"output_json_path", "flow_data", "iterates_per_run",
             "num_benchmark_runs", "metadata">>
TopKeySet == {TopKeys[i] : i \in 1..Len(TopKeys)}

Durations == 1..MaxDur

\* A config whose top level cannot be read: no other field is ever looked at.
Unreadable ==
    {[parse |-> p, missing |-> None, out |-> "out", flowKeys |-> AllFlowKeys,
      iter |-> 1, runs |-> 1, errorData |-> None, flowType |-> "predefined",
      t0 |-> 1, dt0 |-> 2, errT0 |-> 5] : p \in {"invalid", "nondict"}}
    \cup
    {[parse |-> "dict", missing |-> k, out |-> o, flowKeys |-> AllFlowKeys,
      iter |-> 1, runs |-> 1, errorData |-> None, flowType |-> "predefined",
      t0 |-> 1, dt0 |-> 2, errT0 |-> 5] : k \in TopKeySet, o \in {"out", "null"}}

\* A JSON object with every top-level key.  missing = "case_description": the
\* metadata lacks that entry.  errorData: none ({} or absent), the case
\* table's form {path, t0, T}, or {true_data: [...], t0, error_params}.
Readable ==
    [parse : {"dict"}, missing : {None, "case_description"}, out : {"out", "null"},
     flowKeys : FlowKeySets, iter : (0 - 1)..MaxIter, runs : (0 - 1)..MaxRuns,
     errorData : {None, "table", "inline"},
     flowType : {"predefined", "data", "other"},
     t0 : {1}, dt0 : {2}, errT0 : {5}]

Configs == Unreadable \cup Readable

Runners == {"numbacs", "dynlab"}

\* output_path_for_error = "numbacs_error.json" / "dynlab_error.json"
DefaultErrorPath(r) == IF r = "numbacs" THEN "numbacs_error.json" ELSE "dynlab_error.json"
Paths == {"out", "numbacs_error.json", "dynlab_error.json"}

\* "package" of the ErrorDocument
PackageLabel(r) == IF r = "numbacs" THEN "NumbaCS" ELSE "Dynlab"

NoDoc == [kind |-> "none"]
NoErr == [type |-> "none", keys |-> {}]

\* req_keys of the benchmark function the runner calls for the flow type
ReqKeysNone(r, ft) == {}
ReqKeys(r, ft) ==
    CASE r = "dynlab" -> {"flow_str", "domain", "grid_shape", "t0", "T", "dt0"}
      [] r = "numbacs" /\ ft = "data" ->
            {"flow_str", "vel_data_paths", "domain", "t0", "T", "dt0"}
      [] OTHER -> {"flow_str", "grid_shape", "t0", "T", "dt0"}

(***************************************************************************)
(* runners/numbacs_runner.py, runners/dynlab_runner.py: main               *)
(***************************************************************************)
AllStages == <<"parse", "validate", "warmup", "loops", "write">>

\* an exception reaches main's except clause; env: it came from the machine
\* (compute library, file system), not from the config
Raise(e, env) ==
    /\ rpc' = "except"
    /\ err' = e
    /\ envFailed' = (envFailed \/ env)

\* run_config = json.loads(args.run_config_json)
RParse ==
    /\ rpc = "parse"
    /\ IF cfg.parse = "invalid"
       THEN /\ Raise([type |-> "JSONDecodeError", keys |-> {}], FALSE)
            /\ UNCHANGED stagesDone
       ELSE /\ rpc' = "extract"
            /\ stagesDone' = Append(stagesDone, "parse")
            /\ UNCHANGED <<err, envFailed>>
    /\ UNCHANGED <<runner, cfg, execs, loopTimes, warmupTime, results, fs, exitCode,
                   errAttempt>>
    /\ UNCHANGED <<noxVars, toolVars>>

\* the first top-level key, in reading order, that the config lacks
FirstMissing ==
    IF cfg.missing \in TopKeySet THEN cfg.missing ELSE None

\* the flow-type test of the runner, made before the benchmark function is
\* called: None, or the exception it raises
FlowTypeError ==
    CASE runner = "numbacs" /\ cfg.flowType = "data"
             /\ "vel_data_paths" \notin cfg.flowKeys ->
            [type |-> "ValueError", keys |-> {"vel_data_paths"}]
      [] runner = "numbacs" /\ cfg.flowType \notin {"predefined", "data"} ->
            [type |-> "ValueError", keys |-> {}]
      [] runner = "dynlab" /\ cfg.flowType # "predefined" ->
            [type |-> "ValueError", keys |-> {}]
      [] OTHER -> NoErr

\* output_json_path = run_config['output_json_path'] ... flow_type checks
RExtract ==
    /\ rpc = "extract"
    /\ CASE cfg.parse = "nondict" -> Raise([type |-> "TypeError", keys |-> {}], FALSE)
         [] FirstMissing # None ->
               Raise([type |-> "KeyError", keys |-> {FirstMissing}], FALSE)
         [] FlowTypeError # NoErr -> Raise(FlowTypeError, FALSE)
         [] OTHER -> /\ rpc' = "validate"
                     /\ UNCHANGED <<err, envFailed>>
    /\ UNCHANGED <<runner, cfg, stagesDone, execs, loopTimes, warmupTime, results, fs,
                   exitCode, errAttempt>>
    /\ UNCHANGED <<noxVars, toolVars>>

\* if not req_keys.issubset(flow_data.keys()): raise ValueError(... {req_keys})
RValidate ==
    /\ rpc = "validate"
    /\ IF ReqKeys(runner, cfg.flowType) \subseteq cfg.flowKeys
       THEN /\ rpc' = "setup"
            /\ stagesDone' = Append(stagesDone, "validate")
            /\ UNCHANGED <<err, envFailed>>
       ELSE /\ Raise([type |-> "ValueError", keys |-> ReqKeys(runner, cfg.flowType)],
                     FALSE)
            /\ UNCHANGED stagesDone
    /\ UNCHANGED <<runner, cfg, execs, loopTimes, warmupTime, results, fs, exitCode,
                   errAttempt>>
    /\ UNCHANGED <<noxVars, toolVars>>

\* metadata['package_name'], metadata['case_description'], then the flow set-up
\* (get_predefined_flow, np.load, interpolants), which the library may refuse
RSetup ==
    /\ rpc = "setup"
    /\ IF cfg.missing = "case_description"
       THEN Raise([type |-> "KeyError", keys |-> {"case_description"}], FALSE)
       ELSE \E ok \in BOOLEAN :
              IF ok
              THEN /\ rpc' = "warmup"
                   /\ UNCHANGED <<err, envFailed>>
              ELSE Raise([type |-> "SetupError", keys |-> {}], TRUE)
    /\ UNCHANGED <<runner, cfg, stagesDone, execs, loopTimes, warmupTime, results, fs,
                   exitCode, errAttempt>>
    /\ UNCHANGED <<noxVars, toolVars>>

WarmupExec(start) == [kind |-> "warmup", start |-> start, run |-> 0, k |-> 0]

\* The warm-up.  With a non-empty error_data the function reads
\* error_data['true_data'] first; a true_data that came through JSON is a list,
\* and MAE's truth.shape raises after the warm-up has been computed.
RWarmup ==
    /\ rpc = "warmup"
    /\ CASE cfg.errorData = "table" ->
              /\ Raise([type |-> "KeyError", keys |-> {"true_data"}], FALSE)
              /\ UNCHANGED <<execs, warmupTime, stagesDone>>
         [] cfg.errorData = "inline" ->
              /\ \E ok \in BOOLEAN :
                   IF ok
                   THEN /\ execs' = Append(execs, WarmupExec(cfg.errT0))
                        /\ Raise([type |-> "AttributeError", keys |-> {}], FALSE)
                   ELSE /\ Raise([type |-> "ComputeError", keys |-> {}], TRUE)
                        /\ UNCHANGED execs
              /\ UNCHANGED <<warmupTime, stagesDone>>
         [] OTHER ->
              \E d \in Durations \cup {0} :
                   IF d # 0
                   THEN /\ execs' = Append(execs, WarmupExec(cfg.t0))
                        /\ warmupTime' = d
                        /\ stagesDone' = Append(stagesDone, "warmup")
                        /\ rpc' = "loops"
                        /\ UNCHANGED <<err, envFailed>>
                   ELSE /\ Raise([type |-> "ComputeError", keys |-> {}], TRUE)
                        /\ UNCHANGED <<execs, warmupTime, stagesDone>>
    /\ UNCHANGED <<runner, cfg, loopTimes, results, fs, exitCode, errAttempt>>
    /\ UNCHANGED <<noxVars, toolVars>>

\* elif num_benchmark_runs < 1: raise ValueError(...)
RBadRuns ==
    /\ rpc = "loops"
    /\ cfg.runs < 1
    /\ Raise([type |-> "ValueError", keys |-> {"num_benchmark_runs"}], FALSE)
    /\ UNCHANGED <<runner, cfg, stagesDone, execs, loopTimes, warmupTime, results, fs,
                   exitCode, errAttempt>>
    /\ UNCHANGED <<noxVars, toolVars>>

\* the window start of iterate k: t0 + k*dt0
IterStart(k) == cfg.t0 + k * cfg.dt0

\* for k in range(iterates_per_run): one compute each (none when the count < 1)
IterExecs(i) ==
    [j \in 1..(IF cfg.iter > 0 THEN cfg.iter ELSE 0) |->
        [kind |-> "iter", start |-> IterStart(j - 1), run |-> i, k |-> j - 1]]

\* one outer repeat: l_start ... the inner loop ... loop_time
RRun ==
    /\ rpc = "loops"
    /\ cfg.runs >= 1
    /\ Len(loopTimes) < cfg.runs
    /\ \E d \in Durations \cup {0} :
         IF d # 0
         THEN /\ execs' = execs \o IterExecs(Len(loopTimes) + 1)
              /\ loopTimes' = Append(loopTimes, d)
              /\ UNCHANGED <<rpc, err, envFailed>>
         ELSE /\ Raise([type |-> "ComputeError", keys |-> {}], TRUE)
              /\ UNCHANGED <<execs, loopTimes>>
    /\ UNCHANGED <<runner, cfg, stagesDone, warmupTime, results, fs, exitCode, errAttempt>>
    /\ UNCHANGED <<noxVars, toolVars>>

\* per_iter_time = loop_time/iterates_per_run in the single-run branch
SingleRunPerIterUndivided(loopTime, iterates) == FromInt(loopTime)
SingleRunPerIter(loopTime, iterates) == Rat(loopTime, iterates)

\* timing_data of the branch num_benchmark_runs > 1
TimingsMany ==
    LET lt == [i \in 1..Len(loopTimes) |-> FromInt(loopTimes[i])]
        pit == [i \in 1..Len(lt) |-> NpDivide(lt[i], cfg.iter)]
    IN  [warmup_time |-> FromInt(warmupTime),
         hasLists |-> TRUE,
         loop_times |-> lt,
         per_iter_times |-> pit,
         mean_loop_time |-> NpMean(lt),
         mean_per_iter_time |-> NpMean(pit),
         std_loop_time |-> NpStd(lt),
         std_per_iter_time |-> NpStd(pit)]

\* timing_data of the branch num_benchmark_runs == 1
TimingsSingle ==
    [warmup_time |-> FromInt(warmupTime),
     hasLists |-> FALSE,
     loop_times |-> <<>>,
     per_iter_times |-> <<>>,
     mean_loop_time |-> FromInt(loopTimes[1]),
     mean_per_iter_time |-> SingleRunPerIter(loopTimes[1], cfg.iter),
     std_loop_time |-> StdZero,
     std_per_iter_time |-> StdZero]

\* results: parameters, timings, metadata; an error section only when the
\* warm-up computed one, which no config that came through JSON reaches
ResultDoc(t) ==
    [kind |-> "result",
     params |-> [iterates_per_run |-> cfg.iter, num_benchmark_runs |-> cfg.runs],
     timings |-> t,
     hasError |-> FALSE,
     package |-> PackageLabel(runner)]

\* the statistics after the last repeat; a Python float divided by an int 0
\* raises ZeroDivisionError, a numpy array divided by 0 does not
RStats ==
    /\ rpc = "loops"
    /\ cfg.runs >= 1
    /\ Len(loopTimes) = cfg.runs
    /\ IF cfg.runs = 1 /\ cfg.iter = 0
       THEN /\ Raise([type |-> "ZeroDivisionError", keys |-> {}], FALSE)
            /\ UNCHANGED <<results, stagesDone>>
       ELSE /\ results' = ResultDoc(IF cfg.runs > 1 THEN TimingsMany ELSE TimingsSingle)
            /\ stagesDone' = Append(stagesDone, "loops")
            /\ rpc' = "write"
            /\ UNCHANGED <<err, envFailed>>
    /\ UNCHANGED <<runner, cfg, execs, loopTimes, warmupTime, fs, exitCode, errAttempt>>
    /\ UNCHANGED <<noxVars, toolVars>>

\* except IOError as e: print(...); raise
WriteFailureSwallowed ==
    /\ rpc' = "exit0"
    /\ exitCode' = 0
    /\ envFailed' = TRUE
    /\ err' = [type |-> "IOError", keys |-> {}]
WriteFailure == Raise([type |-> "IOError", keys |-> {}], TRUE) /\ UNCHANGED exitCode

\* os.makedirs(os.path.dirname(output_json_path)); open; json.dump(results, f)
RWrite ==
    /\ rpc = "write"
    /\ IF cfg.out = "null"
       THEN /\ Raise([type |-> "TypeError", keys |-> {}], FALSE)
            /\ UNCHANGED <<fs, stagesDone, exitCode>>
       ELSE \E ok \in BOOLEAN :
              IF ok
              THEN /\ fs' = [fs EXCEPT !["out"] = results]
                   /\ stagesDone' = Append(stagesDone, "write")
                   /\ rpc' = "exit0"
                   /\ exitCode' = 0
                   /\ UNCHANGED <<err, envFailed>>
              ELSE /\ WriteFailure
                   /\ UNCHANGED <<fs, stagesDone>>
    /\ UNCHANGED <<runner, cfg, execs, loopTimes, warmupTime, results, errAttempt>>
    /\ UNCHANGED <<noxVars, toolVars>>

\* output_path_for_error: the default, replaced by
\* parsed_config.get('output_json_path', default) when the string parses
\* again and the result has a get; None here is a falsy value (null, "")
ErrorPathDefaultOnly(r, c) == DefaultErrorPath(r)
ErrorPath(r, c) ==
    CASE c.parse # "dict" -> DefaultErrorPath(r)
      [] c.missing = "output_json_path" -> DefaultErrorPath(r)
      [] c.out = "null" -> None
      [] OTHER -> c.out

ErrorDoc == [kind |-> "error", package |-> PackageLabel(runner), error |-> err,
             received |-> cfg]

\* the except clause of main: write the ErrorDocument if output_path_for_error
\* is truthy, swallow whatever that raises, sys.exit(1)
RExcept ==
    /\ rpc = "except"
    /\ errAttempt' = ErrorPath(runner, cfg)
    /\ IF ErrorPath(runner, cfg) = None
       THEN UNCHANGED fs
       ELSE \E ok \in BOOLEAN :
              IF ok
              THEN fs' = [fs EXCEPT ![ErrorPath(runner, cfg)] = ErrorDoc]
              ELSE UNCHANGED fs
    /\ stagesDone' = Append(stagesDone, "error")
    /\ rpc' = "exit1"
    /\ exitCode' = 1
    /\ UNCHANGED <<runner, cfg, execs, loopTimes, warmupTime, results, err, envFailed>>
    /\ UNCHANGED <<noxVars, toolVars>>

(***************************************************************************)
(* The orchestrator's variables while a runner is modelled                 *)
(***************************************************************************)
NoxIdle ==
    /\ supported = [p \in Packages |-> {}]
    /\ lcstoolEnv = FALSE
    /\ loopPos = 1
    /\ sessions = <<>>
    /\ skipLog = <<>>
    /\ cur = 1
    /\ spc = "idle"
    /\ started = [c \in AllPairs |-> 0]
    /\ runnerCalls = [c \in AllPairs |-> 0]
    /\ outcome = [c \in AllPairs |-> "pending"]
    /\ runResult = None
    /\ tmpFiles = {}
    /\ tmpCreated = {}
    /\ warned = {}
    /\ sessionNames = <<>>
    /\ outPaths = [c \in AllPairs |-> <<>>]
    /\ noxRun = 1

InitRunner ==
    /\ NoxIdle
    /\ ToolsIdle
    /\ runner \in Runners
    /\ cfg \in Configs
    /\ rpc = "parse"
    /\ stagesDone = <<>>
    /\ execs = <<>>
    /\ loopTimes = <<>>
    /\ warmupTime = 0
    /\ results = NoDoc
    /\ fs = [p \in Paths |-> NoDoc]
    /\ exitCode = 0 - 1
    /\ err = NoErr
    /\ envFailed = FALSE
    /\ errAttempt = None

NextRunner ==
    \/ RParse
    \/ RExtract
    \/ RValidate
    \/ RSetup
    \/ RWarmup
    \/ RBadRuns
    \/ RRun
    \/ RStats
    \/ RWrite
    \/ RExcept

SpecRunner == InitRunner /\ [][NextRunner]_vars

(***************************************************************************)
(* Claims about noxfile.py, checked under Spec                             *)
(***************************************************************************)
PkgIndex(p) == CHOOSE i \in 1..Len(PackageOrder) : PackageOrder[i] = p
CaseIndex(c) == CHOOSE i \in 1..Len(CaseOrder) : CaseOrder[i] = c

\* package-major, then case order
Before(a, b) ==
    \/ PkgIndex(a[1]) < PkgIndex(b[1])
    \/ PkgIndex(a[1]) = PkgIndex(b[1]) /\ CaseIndex(a[2]) < CaseIndex(b[2])

StrictlyOrdered(s) == \A i, j \in 1..Len(s) : i < j => Before(s[i], s[j])
Range(s) == {s[i] : i \in 1..Len(s)}

SupportedPairs == {pc \in Packages \X Cases : pc[2] \in supported[pc[1]]}

\* C1: every supported cell is dispatched exactly once, none is retried, and a
\* cell that failed never keeps a later cell from being dispatched: once nox
\* is past a session, that session was entered exactly once, and when nox is
\* done every supported cell was entered exactly once whatever the others did.
C1_FaultIsolation ==
    /\ \A c \in AllPairs : started[c] <= 1 /\ runnerCalls[c] <= 1
    /\ \A c \in AllPairs \ SupportedPairs : started[c] = 0
    /\ ~Registering =>
         \A i \in 1..Len(sessions) : i < cur => started[sessions[i]] = 1
    /\ NoxDone => \A c \in SupportedPairs : started[c] = 1

\* a run in which a cell failed and a later cell was still dispatched
C1_Witness ==
    /\ NoxDone
    /\ \E i, j \in 1..Len(sessions) :
         /\ i < j
         /\ outcome[sessions[i]] = "failed"
         /\ started[sessions[j]] = 1
         /\ runnerCalls[sessions[j]] = 1

\* C2 (as stated): once the temporary config file of an external-interpreter
\* cell has been created, it no longer exists when the cell has ended.
C2_TempFileRemoved ==
    \A c \in tmpCreated : outcome[c] # "pending" => c \notin tmpFiles

\* C10: when the registration loop has ended, the registered cells are exactly
\* the supported pairs, in package-major then case order, and the skip
\* diagnostics are exactly the unsupported pairs; while it runs, every pair
\* visited so far went to one of the two.
C10_Matrix ==
    /\ Range(sessions) \cap Range(skipLog) = {}
    /\ Range(sessions) \cup Range(skipLog) = {PairAt(n) : n \in 1..(loopPos - 1)}
    /\ Range(sessions) \subseteq SupportedPairs
    /\ Range(skipLog) \cap SupportedPairs = {}
    /\ StrictlyOrdered(sessions)
    /\ StrictlyOrdered(skipLog)
    /\ ~Registering =>
         /\ Range(sessions) = SupportedPairs
         /\ Range(skipLog) = (Packages \X Cases) \ SupportedPairs

\* two packages of which only one supports a case: one cell and one skip
C10_Witness ==
    /\ ~Registering
    /\ \E c \in Cases : \E p, q \in Packages :
         /\ <<p, c>> \in Range(sessions)
         /\ <<q, c>> \in Range(skipLog)
         /\ Len(sessions) >= 2

(***************************************************************************)
(* Claims about the direct-invocation runners, checked under SpecRunner    *)
(***************************************************************************)
IsPrefix(a, b) == Len(a) <= Len(b) /\ \A i \in 1..Len(a) : a[i] = b[i]
Exited == rpc \in {"exit0", "exit1"}

C3_WitnessSuccess == rpc = "exit0" /\ fs["out"].kind = "result"

\* the config parses to an object that names a non-empty output path
NamesOutputPath ==
    cfg.parse = "dict" /\ cfg.missing # "output_json_path" /\ cfg.out # "null"

\* the config parses to an object whose output path entry is null or empty
EmptyOutputPath ==
    cfg.parse = "dict" /\ cfg.missing # "output_json_path" /\ cfg.out = "null"

OnlyChanged(path) == \A q \in Paths \ {path} : fs[q] = NoDoc

\* C4 (as stated): after a failure the ErrorDocument goes to the output path
\* the config names when it can be parsed and names one, and otherwise to
\* the runner's default path; the exit status is non-zero.
C4_ErrorDocPathOriginal ==
    rpc = "exit1" =>
       /\ exitCode = 1
       /\ errAttempt = IF NamesOutputPath THEN "out"
                       ELSE IF runner = "numbacs" THEN "numbacs_error.json"
                       ELSE "dynlab_error.json"

\* C4 (amended): as stated, except that a config that parses to an object
\* whose output path entry is present but null or empty gets no ErrorDocument
\* at all; a failed write of the ErrorDocument leaves the files as they were,
\* and the runner exits 1 in every case.
C4_ErrorDocPath ==
    /\ rpc # "exit1" => errAttempt = None
    /\ rpc = "exit1" =>
         /\ exitCode = 1
         /\ errAttempt = IF NamesOutputPath THEN "out"
                         ELSE IF EmptyOutputPath THEN None
                         ELSE IF runner = "numbacs" THEN "numbacs_error.json"
                         ELSE "dynlab_error.json"
         /\ errAttempt = None => \A q \in Paths : fs[q] = NoDoc
         /\ errAttempt # None =>
              /\ OnlyChanged(errAttempt)
              /\ fs[errAttempt] = NoDoc
                   \/ /\ fs[errAttempt].kind = "error"
                      /\ fs[errAttempt].error = err
                      /\ fs[errAttempt].received = cfg

\* a validation failure whose ErrorDocument landed at the config's output path
C4_Witness ==
    /\ rpc = "exit1"
    /\ err.type = "ValueError"
    /\ errAttempt = "out"
    /\ fs["out"].kind = "error"

\* the config could not be parsed: the ErrorDocument is at the default path
C4_WitnessDefault ==
    /\ rpc = "exit1"
    /\ cfg.parse = "invalid"
    /\ fs["numbacs_error.json"].kind = "error"

\* The required keys of a flow config, per runner, as the runners have them.
RunnerRequired(r, ft) ==
    IF r = "dynlab"
    THEN {"flow_str", "grid_shape", "t0", "T", "dt0", "domain"}
    ELSE IF ft = "predefined"
         THEN {"flow_str", "grid_shape", "t0", "T", "dt0"}
         ELSE {"flow_str", "vel_data_paths", "domain", "t0", "T", "dt0"}

\* The required keys of a flow config, per flow type, as the claim lists them.
ClaimRequired(ft) ==
    IF ft = "predefined"
    THEN {"flow_str", "grid_shape", "t0", "T", "dt0", "domain"}
    ELSE {"flow_str", "vel_data_paths", "domain", "t0", "T", "dt0"}

\* the config reaches the flow-type handling of the runner
TopLevelReadable == cfg.parse = "dict" /\ cfg.missing \notin TopKeySet

\* the runner has a benchmark function for the flow type
RunnerHandles(r, ft) ==
    \/ r = "numbacs" /\ ft \in {"predefined", "data"}
    \/ r = "dynlab" /\ ft = "predefined"

\* C5 (as stated): a flow config that lacks a key of its flow type's required
\* set (predefined: with domain) never gets a compute execution and never
\* exits 0, whichever runner receives it.
C5_MissingKeysOriginal ==
    (/\ TopLevelReadable
     /\ cfg.flowType \in {"predefined", "data"}
     /\ ~(ClaimRequired(cfg.flowType) \subseteq cfg.flowKeys))
    => execs = <<>> /\ exitCode # 0

\* C5 (amended): for the direct-invocation runners and the flow types they
\* handle, a flow config that lacks a key of the runner's own required set
\* (NumbaCS predefined does not require domain) fails validation before any
\* compute execution, with a ValueError whose message lists the missing keys,
\* exits 1, and its ErrorDocument goes to the intended output path.
C5_MissingKeys ==
    (/\ TopLevelReadable
     /\ RunnerHandles(runner, cfg.flowType)
     /\ ~(RunnerRequired(runner, cfg.flowType) \subseteq cfg.flowKeys))
    => /\ execs = <<>>
       /\ warmupTime = 0
       /\ exitCode # 0
       /\ "validate" \notin Range(stagesDone)
       /\ rpc \notin {"setup", "warmup", "loops", "write", "exit0"}
       /\ rpc = "exit1" =>
            /\ err.type = "ValueError"
            /\ (RunnerRequired(runner, cfg.flowType) \ cfg.flowKeys) \subseteq err.keys
            /\ errAttempt = IF cfg.out = "null" THEN None ELSE "out"
            /\ errAttempt = "out" => fs["out"] = NoDoc \/ fs["out"].error = err

\* a data config without vel_data_paths: ValueError naming the key, and the
\* ErrorDocument at the intended output path
C5_Witness ==
    /\ rpc = "exit1"
    /\ runner = "numbacs"
    /\ cfg.flowType = "data"
    /\ cfg.missing = None
    /\ "vel_data_paths" \notin cfg.flowKeys
    /\ "vel_data_paths" \in err.keys
    /\ fs["out"].kind = "error"
    /\ execs = <<>>

\* C6 (as stated): an invocation whose iterates-per-run or runs-per-benchmark
\* is less than 1 writes no ResultDocument and does not exit 0.
C6_CountsRejected ==
    (TopLevelReadable /\ (cfg.iter < 1 \/ cfg.runs < 1))
    => /\ exitCode # 0
       /\ \A q \in Paths : fs[q].kind # "result"

\* C7: a ResultDocument written with runs-per-benchmark = 1 has std-run-time
\* and std-iterate-time equal to 0.0, its mean-run-time is the single run's
\* duration and its mean-iterate-time is that duration divided by
\* iterates-per-run.
C7_SingleRunStats ==
    \A q \in Paths :
       (fs[q].kind = "result" /\ fs[q].params.num_benchmark_runs = 1) =>
          /\ Len(loopTimes) = 1
          /\ fs[q].timings.std_loop_time = [sq |-> [n |-> 0, d |-> 1]]
          /\ fs[q].timings.std_per_iter_time = [sq |-> [n |-> 0, d |-> 1]]
          /\ fs[q].timings.mean_loop_time = [n |-> loopTimes[1], d |-> 1]
          /\ fs[q].timings.mean_per_iter_time.d # 0
          /\ fs[q].timings.mean_per_iter_time.n * fs[q].params.iterates_per_run
               = loopTimes[1] * fs[q].timings.mean_per_iter_time.d

\* one run of 2 iterates that took 1 time unit
C7_Witness ==
    /\ rpc = "exit0"
    /\ fs["out"].kind = "result"
    /\ cfg.runs = 1
    /\ cfg.iter = 2
    /\ loopTimes = <<1>>

\* C8 (as stated): in a successful invocation the compute executions are one
\* warm-up, then runs-per-benchmark repeats of iterates-per-run iterates,
\* 1 + runs * iterates in all; iterate k starts at t0 + k*dt0; there is one
\* duration sample per repeat, and each per-iterate sample is that repeat's
\* duration divided by iterates-per-run.
C8_Executions ==
    rpc = "exit0" =>
       /\ Len(execs) = 1 + cfg.runs * cfg.iter
       /\ execs[1].kind = "warmup"
       /\ \A i \in 1..cfg.runs : \A k \in 0..(cfg.iter - 1) :
            LET e == execs[1 + (i - 1) * cfg.iter + k + 1]
            IN  e.kind = "iter" /\ e.run = i /\ e.k = k /\ e.start = cfg.t0 + k * cfg.dt0
       /\ Len(loopTimes) = cfg.runs
       /\ cfg.runs > 1 =>
            /\ Len(fs["out"].timings.per_iter_times) = cfg.runs
            /\ \A i \in 1..cfg.runs :
                 fs["out"].timings.per_iter_times[i].n * cfg.iter
                   = loopTimes[i] * fs["out"].timings.per_iter_times[i].d

\* a config the data model allows, apart from its error reference
WellFormed ==
    /\ cfg.parse = "dict"
    /\ cfg.missing = None
    /\ cfg.out = "out"
    /\ RunnerHandles(runner, cfg.flowType)
    /\ cfg.flowKeys = AllFlowKeys
    /\ cfg.iter >= 1
    /\ cfg.runs >= 1

\* C9 (as stated): with the error reference of the case table (path, t0, T)
\* the invocation succeeds on a machine that does not fail, its warm-up ran
\* at the reference window and the ResultDocument has an error section; with
\* no error reference the ResultDocument has no error section.
C9_ErrorReference ==
    (Exited /\ WellFormed /\ ~envFailed) =>
       /\ cfg.errorData = "table" =>
            /\ exitCode = 0
            /\ fs["out"].kind = "result"
            /\ fs["out"].hasError
            /\ execs[1] = [kind |-> "warmup", start |-> cfg.errT0, run |-> 0, k |-> 0]
       /\ cfg.errorData = None =>
            /\ exitCode = 0
            /\ fs["out"].kind = "result"
            /\ ~fs["out"].hasError

(***************************************************************************)
(* Further claims about noxfile.py, checked under Spec                     *)
(***************************************************************************)
ExternalCells == {c \in AllPairs : Strategy(c[1]) = "external"}

\* C11: with LCSTOOL_PATH unset no external-interpreter cell ever gets a
\* temporary config file or a runner process; a session of such a cell that
\* reaches the package branch warns and returns, which nox records as a
\* session that did not fail; a direct-invocation cell that reaches the
\* branch has its runner started as usual.
C11_EnvUnsetSkips ==
    /\ [](~lcstoolEnv =>
            \A c \in ExternalCells :
               /\ c \notin tmpCreated
               /\ c \notin tmpFiles
               /\ runnerCalls[c] = 0
               /\ outcome[c] = "ok" => c \in warned)
    /\ [][(spc = "dispatch" /\ ~lcstoolEnv /\ sessions[cur] \in ExternalCells)
            => /\ outcome'[sessions[cur]] = "ok"
               /\ sessions[cur] \in warned'
               /\ spc' = "idle"
               /\ tmpFiles' = tmpFiles]_vars
    /\ [][(spc = "dispatch" /\ sessions[cur] \notin ExternalCells)
            => /\ runnerCalls'[sessions[cur]] = runnerCalls[sessions[cur]] + 1
               /\ sessions[cur] \notin warned']_vars

\* LCSTOOL_PATH unset: an external cell was skipped with a warning, and a
\* direct-invocation cell registered after it had its runner started
C11_Witness ==
    /\ NoxDone
    /\ ~lcstoolEnv
    /\ \E c \in ExternalCells : outcome[c] = "ok" /\ c \in warned /\ started[c] = 1
    /\ \E c \in AllPairs \ ExternalCells : runnerCalls[c] = 1

(***************************************************************************)
(* runners/matlab_runner.py: the external-interpreter runner.              *)
(* One run of the script on one command line.  The MATLAB process is an    *)
(* input: the time it would take and the status it would exit with.        *)
(***************************************************************************)
DefaultExpectedIterTime == 200
TimeoutOverhead == 300

\* --expected_iter_time as typed on the command line (<<>>: flag absent)
GivenIterTimes == {<<>>, <<10>>}
\* seconds the MATLAB process needs when nothing stops it
ProcTimes == {100, 600, 2000}
\* status the MATLAB process exits with when it is left to finish
ProcStatuses == {0, 1}
\* the file named by --run-config-json-path
\*   missing   : os.path.isfile is false
\*   vanishing : a file at the isfile check, gone when it is opened
\*   malformed : not JSON
\*   nokeys    : JSON without iterates_per_run or num_benchmark_runs
\*   badtypes  : the two counts are not numbers
\*   ok        : both counts are integers
CfgFileKinds == {"missing", "vanishing", "malformed", "nokeys", "badtypes", "ok"}

MatlabArgs ==
    [script   : BOOLEAN,          \* os.path.isfile(args.matlab_script)
     cfgFile  : CfgFileKinds,
     iterates : 1..MaxIter,       \* cfg_dict['iterates_per_run']
     runs     : 1..MaxRuns,       \* cfg_dict['num_benchmark_runs']
     exe      : BOOLEAN,          \* the MATLAB executable can be started
     expected : GivenIterTimes,   \* args.expected_iter_time as typed
     procTime : ProcTimes,
     procStatus : ProcStatuses]

\* args.expected_iter_time after parse_args: the typed value or the default
ParsedIterTime(a) ==
    IF a.expected = <<>> THEN DefaultExpectedIterTime ELSE a.expected[1]

\* The expected_iter_time parameter inside run_matlab_benchmark.  __main__
\* calls it with three positional arguments, so the parameter always takes
\* its default.
ExpectedIterTimeFromFlag(a) == ParsedIterTime(a)
ExpectedIterTime(a) == DefaultExpectedIterTime

TimeoutSeconds(a) ==
    ExpectedIterTime(a) * a.iterates * a.runs + TimeoutOverhead

\* The except clauses of run_matlab_benchmark, in order; the last one takes
\* every exception the config read or subprocess.run can raise.
CaughtNamedOnly(exc) == exc \in {"FileNotFoundError", "TimeoutExpired"}
Caught(exc) ==
    \/ exc = "FileNotFoundError"
    \/ exc = "TimeoutExpired"
    \/ exc \in {"JSONDecodeError", "KeyError", "TypeError"}

\* An exception raised inside the try of run_matlab_benchmark
MRaise(exc) ==
    /\ mexc' = exc
    /\ mescaped' = ~Caught(exc)
    /\ mreturn' = IF Caught(exc) THEN "false" ELSE None
    /\ mpc' = "returned"

\* __main__, lines 134-144: the two isfile checks
MMainChecks ==
    /\ mpc = "main"
    /\ IF ~margs.script \/ margs.cfgFile = "missing"
         THEN /\ mpc' = "done"
              /\ mexit' = 1
         ELSE /\ mpc' = "try"
              /\ mexit' = mexit
    /\ UNCHANGED <<margs, mtimeout, mproc, mexc, mescaped, mreturn, mresult>>
    /\ UNCHANGED <<noxVars, runVars, repVars>>

\* run_matlab_benchmark, lines 58-65: read the counts, compute the timeout
MReadConfig ==
    /\ mpc = "try"
    /\ CASE margs.cfgFile = "vanishing" ->
              MRaise("FileNotFoundError") /\ mtimeout' = mtimeout
         [] margs.cfgFile = "malformed" ->
              MRaise("JSONDecodeError") /\ mtimeout' = mtimeout
         [] margs.cfgFile = "nokeys" ->
              MRaise("KeyError") /\ mtimeout' = mtimeout
         [] margs.cfgFile = "badtypes" ->
              MRaise("TypeError") /\ mtimeout' = mtimeout
         [] OTHER ->
              /\ mtimeout' = TimeoutSeconds(margs)
              /\ mpc' = "run"
              /\ UNCHANGED <<mexc, mescaped, mreturn>>
    /\ UNCHANGED <<margs, mproc, mexit, mresult>>
    /\ UNCHANGED <<noxVars, runVars, repVars>>

\* The result file of the cell.  Nothing in matlab_runner.py opens, writes
\* or removes it: only the MATLAB script, once its process has started, may
\* write it, and the process may end before or after it has.
ResultFileStates == {"absent", "result"}
ScriptLeaves(f) == {f, "result"}

\* run_matlab_benchmark, lines 66-85 and 109: subprocess.run and its result
MSubprocess ==
    /\ mpc = "run"
    /\ CASE ~margs.exe ->
              /\ mproc' = "not_started"
              /\ MRaise("FileNotFoundError")
         [] margs.exe /\ margs.procTime > mtimeout ->
              /\ mproc' = "killed"
              /\ MRaise("TimeoutExpired")
         [] OTHER ->
              /\ mproc' = IF margs.procStatus = 0 THEN "exit0" ELSE "exit_nonzero"
              /\ mreturn' = IF margs.procStatus = 0 THEN "true" ELSE "false"
              /\ mpc' = "returned"
              /\ UNCHANGED <<mexc, mescaped>>
    /\ IF margs.exe
         THEN mresult' \in ScriptLeaves(mresult)
         ELSE mresult' = mresult
    /\ UNCHANGED <<margs, mtimeout, mexit>>
    /\ UNCHANGED <<noxVars, runVars, repVars>>

\* __main__, lines 153-160; an exception that left the function ends the
\* interpreter with status 1
MExit ==
    /\ mpc = "returned"
    /\ mexit' = IF mreturn = "true" THEN 0 ELSE 1
    /\ mpc' = "done"
    /\ UNCHANGED <<margs, mtimeout, mproc, mexc, mescaped, mreturn, mresult>>
    /\ UNCHANGED <<noxVars, runVars, repVars>>

InitMatlab ==
    /\ margs \in MatlabArgs
    /\ mpc = "main"
    /\ mtimeout = 0
    /\ mproc = None
    /\ mexc = None
    /\ mescaped = FALSE
    /\ mreturn = None
    /\ mexit = 0 - 1
    /\ mresult \in ResultFileStates
    /\ NoxIdle
    /\ RunnerIdle
    /\ ReportIdle

NextMatlab ==
    \/ MMainChecks
    \/ MReadConfig
    \/ MSubprocess
    \/ MExit

SpecMatlab == InitMatlab /\ [][NextMatlab]_vars

\* C12: run_matlab_benchmark returns False, and the runner exits non-zero,
\* when the MATLAB process exits with a non-zero status, is killed by the
\* timeout or cannot be started; it returns True, and the runner exits 0,
\* exactly when the process exited 0; no exception leaves the function.
C12_MatlabRunnerStatus ==
    /\ ~mescaped
    /\ mpc = "returned" => mreturn \in {"true", "false"}
    /\ mreturn = "true" <=> mproc = "exit0"
    /\ mproc \in {"exit_nonzero", "killed", "not_started"} =>
          /\ mreturn = "false"
          /\ mpc = "done" => mexit = 1
    /\ mpc = "done" =>
          /\ mexit \in {0, 1}
          /\ mexit = 0 <=> mreturn = "true"

\* the MATLAB process outlived the timeout, was killed, and the runner
\* exited 1
C12_Witness ==
    /\ mpc = "done"
    /\ mproc = "killed"
    /\ mexc = "TimeoutExpired"
    /\ mreturn = "false"
    /\ mexit = 1

\* C13: the timeout handed to subprocess.run is the expected seconds per
\* iterate given to the runner (--expected_iter_time, 200 when the flag is
\* absent) times iterates_per_run times num_benchmark_runs, both read from
\* the config file, plus 300.
C13_Timeout ==
    mpc \in {"run", "returned", "done"} /\ mproc # None =>
        mtimeout = ExpectedIterTimeFromFlag(margs) * margs.iterates * margs.runs
                     + TimeoutOverhead

(***************************************************************************)
(* src/readme_updater.py: load_benchmark_data.                             *)
(* A file of the results directory is its kind of name and its content.    *)
(***************************************************************************)
MaxFiles == 2

SPEEDUP_BASELINE_PACKAGE == "NumbaCS"
ReportPackages == {SPEEDUP_BASELINE_PACKAGE, "Dynlab"}
ReportCases == {"dg_ftle", "qge_ftle"}

\* metadata["case_id"].replace("_", " ").upper()
NormalizedCaseId(c) ==
    CASE c = "dg_ftle" -> "DG FTLE"
      [] c = "qge_ftle" -> "QGE FTLE"

\* the description the case table gives (noxfile.py:11, 31)
TableDescription(c) ==
    CASE c = "dg_ftle" -> "Double Gyre FTLE"
      [] c = "qge_ftle" -> "QGE FTLE"

\* the keys lines 37-47 index without a default
LoadRequiredKeys ==
    {"metadata", "package_name", "case_id", "parameters", "iterates_per_run",
     "num_benchmark_runs", "timings", "mean_per_iter_time"}

\* A JSON object with the sections of a result document.
\*   missing : the one required key it lacks, or None
\*   desc    : metadata.case_description, <<>> when the key is absent
\*   std     : timings.std_per_iter_time, <<>> when the key is absent
\*   errKey  : the key its error section is stored under, None without one;
\*             the runners write it under "error"
\*   mae     : the mae of that section
ObjectDocs ==
    [kind : {"object"},
     missing : {None},
     package : ReportPackages,
     case_id : ReportCases,
     desc : {<<>>, <<"described">>},
     iterates_per_run : {MaxIter},
     num_benchmark_runs : {MaxRuns},
     mean : {Rat(3, 2)},
     std : {<<>>, <<Rat(1, 4)>>},
     errKey : {None, "error", "error_metrics"},
     mae : {Rat(1, 100)}]

\* one complete document with one required key taken out
LackingDocs ==
    LET full == CHOOSE d \in ObjectDocs :
                   /\ d.package = SPEEDUP_BASELINE_PACKAGE /\ d.case_id = "dg_ftle"
                   /\ d.desc # <<>> /\ d.std # <<>> /\ d.errKey = None
    IN  {[full EXCEPT !.missing = k] : k \in LoadRequiredKeys}

\* content that is not JSON, JSON that is a list, and the ErrorDocument the
\* direct-invocation runners write (status, error_type, error_message, ...)
OtherDocs == {[kind |-> "malformed"], [kind |-> "not_object"], [kind |-> "error_doc"]}

LoadDocs == ObjectDocs \cup LackingDocs \cup OtherDocs

\* name kinds: "results" matches *_results.json; "error_results" matches it
\* and contains "_error"; "other" does not match the pattern
DirFiles ==
    [name : {"results"}, doc : LoadDocs]
      \cup [name : {"error_results", "other"},
            doc : {d \in ObjectDocs : d.desc = <<>> /\ d.std = <<>> /\ d.errKey = None
                                       /\ d.package = "Dynlab" /\ d.case_id = "qge_ftle"}]

Directories == UNION {[1..n -> DirFiles] : n \in 0..MaxFiles}

\* glob.glob(os.path.join(results_dir_path, "*_results.json")), as indices of dir
RECURSIVE GlobFrom(_, _)
GlobFrom(d, i) ==
    IF i > Len(d) THEN <<>>
    ELSE IF d[i].name = "other" THEN GlobFrom(d, i + 1)
    ELSE <<i>> \o GlobFrom(d, i + 1)
JsonFiles == GlobFrom(dir, 1)

\* "_error" in filename.lower()
NameExcluded(f) == f.name = "error_results"

\* the exception json.load or the projection of lines 37-50 raises on this
\* content, None when they raise none
DocRaises(doc) ==
    CASE doc.kind = "malformed" -> "JSONDecodeError"
      [] doc.kind = "not_object" -> "TypeError"
      [] doc.kind = "error_doc" -> "KeyError"
      [] doc.missing # None -> "KeyError"
      [] OTHER -> None

\* except Exception (line 52): every exception of DocRaises is one
LoadCatchesJsonOnly(exc) == exc = "JSONDecodeError"
LoadCatches(exc) == exc \in {"JSONDecodeError", "TypeError", "KeyError"}

\* the record of lines 39-50
Project(doc) ==
    [package |-> doc.package,
     case_id |-> doc.case_id,
     case_description |->
         IF doc.desc = <<>> THEN NormalizedCaseId(doc.case_id)
                            ELSE TableDescription(doc.case_id),
     iterates_per_run |-> doc.iterates_per_run,
     num_benchmark_runs |-> doc.num_benchmark_runs,
     mean_iter_s |-> doc.mean,
     std_iter_s |-> IF doc.std = <<>> THEN NaN ELSE doc.std[1],
     mae |-> IF doc.errKey = "error_metrics" THEN doc.mae ELSE NaN]

LCurFile == dir[JsonFiles[lpos]]

\* lines 26-28
LGlob ==
    /\ lpc = "start"
    /\ lpc' = "loop"
    /\ lpos' = 1
    /\ UNCHANGED <<dir, allData, loadedFrom, lraised>>
    /\ UNCHANGED <<noxVars, runVars, matVars, tabVars, splVars, mainVars>>

\* lines 30-32: an error-marked name is passed over unopened
LSkipErrorName ==
    /\ lpc = "loop"
    /\ lpos <= Len(JsonFiles)
    /\ NameExcluded(LCurFile)
    /\ lpos' = lpos + 1
    /\ UNCHANGED <<dir, lpc, allData, loadedFrom, lraised>>
    /\ UNCHANGED <<noxVars, runVars, matVars, tabVars, splVars, mainVars>>

\* lines 34-51: the file parses and projects; its record is appended
LAppend ==
    /\ lpc = "loop"
    /\ lpos <= Len(JsonFiles)
    /\ ~NameExcluded(LCurFile)
    /\ DocRaises(LCurFile.doc) = None
    /\ allData' = Append(allData, Project(LCurFile.doc))
    /\ loadedFrom' = Append(loadedFrom, JsonFiles[lpos])
    /\ lpos' = lpos + 1
    /\ UNCHANGED <<dir, lpc, lraised>>
    /\ UNCHANGED <<noxVars, runVars, matVars, tabVars, splVars, mainVars>>

\* lines 52-53: what was raised is printed and the loop goes on; an
\* exception the clause does not take would leave the function
LSkipBad ==
    /\ lpc = "loop"
    /\ lpos <= Len(JsonFiles)
    /\ ~NameExcluded(LCurFile)
    /\ DocRaises(LCurFile.doc) # None
    /\ IF LoadCatches(DocRaises(LCurFile.doc))
         THEN /\ lpos' = lpos + 1
              /\ UNCHANGED <<lpc, lraised>>
         ELSE /\ lraised' = TRUE
              /\ lpc' = "raised"
              /\ lpos' = lpos
    /\ UNCHANGED <<dir, allData, loadedFrom>>
    /\ UNCHANGED <<noxVars, runVars, matVars, tabVars, splVars, mainVars>>

\* lines 54-57: the DataFrame of all_data, or an empty DataFrame
LReturn ==
    /\ lpc = "loop"
    /\ lpos > Len(JsonFiles)
    /\ lpc' = "returned"
    /\ UNCHANGED <<dir, lpos, allData, loadedFrom, lraised>>
    /\ UNCHANGED <<noxVars, runVars, matVars, tabVars, splVars, mainVars>>

InitLoad ==
    /\ dir \in Directories
    /\ lpc = "start"
    /\ lpos = 0
    /\ allData = <<>>
    /\ loadedFrom = <<>>
    /\ lraised = FALSE
    /\ NoxIdle
    /\ RunnerIdle
    /\ MatlabIdle
    /\ TablesIdle
    /\ SpliceIdle
    /\ MainIdle

NextLoad ==
    \/ LGlob
    \/ LSkipErrorName
    \/ LAppend
    \/ LSkipBad
    \/ LReturn

SpecLoad == InitLoad /\ [][NextLoad]_vars

\* ---- claims about load_benchmark_data ----
\* a file whose name matches the results pattern and is not error-marked
ResultsNamed(f) == f.name = "results"

\* the content is a JSON object with every section and key of the result
\* schema that has no default
ParsesIntoSchema(doc) == doc.kind = "object" /\ doc.missing = None

RECURSIVE IndicesFrom(_, _)
IndicesFrom(d, i) ==
    IF i > Len(d) THEN <<>>
    ELSE IF ResultsNamed(d[i]) /\ ParsesIntoSchema(d[i].doc)
           THEN <<i>> \o IndicesFrom(d, i + 1)
           ELSE IndicesFrom(d, i + 1)

\* C14: load_benchmark_data never raises on account of a file's content;
\* it returns one record for each results-named file (pattern matched, name
\* not error-marked) that parses into the result schema, in scan order, and
\* none for a file that is malformed, lacks a required key or is an
\* ErrorDocument; an empty collection is returned like any other.
C14_LoadSkipsBadFiles ==
    /\ ~lraised
    /\ lpc # "raised"
    /\ Len(allData) = Len(loadedFrom)
    /\ lpc = "returned" => loadedFrom = IndicesFrom(dir, 1)

\* a malformed file came first in the scan and the valid file after it was
\* still aggregated
C14_Witness ==
    /\ lpc = "returned"
    /\ Len(dir) = 2
    /\ dir[1].name = "results" /\ dir[1].doc.kind = "malformed"
    /\ loadedFrom = <<2>>
    /\ Len(allData) = 1

\* C15: the record of a loaded document carries the document's package,
\* case id, counts and mean; its std is the document's, not available only
\* when the document has none; its mae is the mae of the document's error
\* section (written by the runners under "error"), not available only when
\* the document has no error section; a missing description becomes the
\* normalized case id.
C15_RecordValues ==
    \A k \in 1..Len(allData) :
       LET doc == dir[loadedFrom[k]].doc
           r == allData[k]
       IN  /\ r.package = doc.package
           /\ r.case_id = doc.case_id
           /\ r.iterates_per_run = doc.iterates_per_run
           /\ r.num_benchmark_runs = doc.num_benchmark_runs
           /\ r.mean_iter_s = doc.mean
           /\ r.std_iter_s = (IF doc.std = <<>> THEN NaN ELSE doc.std[1])
           /\ r.case_description =
                 (IF doc.desc = <<>> THEN NormalizedCaseId(doc.case_id)
                                     ELSE TableDescription(doc.case_id))
           /\ doc.errKey = None => r.mae = NaN
           /\ doc.errKey = "error" => r.mae = doc.mae

(***************************************************************************)
(* src/readme_updater.py: generate_md_tables and _speedup_col_fmt.         *)
(* A formatted cell is kept as what the format keeps of the number: the    *)
(* integer count of its last printed decimal place.                        *)
(***************************************************************************)
\* run counts the documents carry: a single run and several
RunCounts == {1, MaxRuns}
\* mean seconds per iterate the documents carry
MeanValues == {Zero, FromInt(1), FromInt(2)}

\* the rows load_benchmark_data can return
TableRecords ==
    [package : ReportPackages,
     case_id : ReportCases,
     case_description : {"described"},
     iterates_per_run : {MaxIter},
     num_benchmark_runs : RunCounts,
     mean_iter_s : MeanValues,
     std_iter_s : {NaN, Rat(1, 4)},
     mae : {NaN, Rat(1, 100)}]

\* a DataFrame has one row per aggregated file
DataFrames == UNION {[1..n -> TableRecords] : n \in 0..MaxFiles}

\* sorted(): the case ids in lexicographic order
LexSortedCases == <<"dg_ftle", "qge_ftle">>

\* sorted(df["case_id"].unique())
SortedCaseIdsDescending(d) ==
    SelectSeq(<<"qge_ftle", "dg_ftle">>, LAMBDA c : \E i \in 1..Len(d) : d[i].case_id = c)
SortedCaseIds(d) ==
    SelectSeq(LexSortedCases, LAMBDA c : \E i \in 1..Len(d) : d[i].case_id = c)

\* df[df["case_id"] == case_id]
Group(d, c) == SelectSeq(d, LAMBDA r : r.case_id = c)

RECURSIVE Pow10(_)
Pow10(k) == IF k = 0 THEN 1 ELSE 10 * Pow10(k - 1)

\* the nearest integer to n/d (n >= 0, d > 0), a tie going to the even one
RoundHalfEven(n, d) ==
    LET q == n \div d
        r == n % d
    IN  IF 2 * r < d THEN q
        ELSE IF 2 * r > d THEN q + 1
        ELSE IF q % 2 = 0 THEN q ELSE q + 1

NotAvailable == [fmt |-> "N/A"]

\* f"{x:.{digits}f}" of a float that is not nan
FormatFixed(x, digits) ==
    IF ~IsFinite(x) THEN [fmt |-> IF x.n > 0 THEN "inf" ELSE "-inf"]
    ELSE [fmt |-> "fixed", digits |-> digits, negative |-> x.n < 0,
          units |-> RoundHalfEven(Abs(x.n) * Pow10(digits), x.d)]

\* the exponent e with 1 <= x / 10^e < 10, for x > 0
RECURSIVE SciExponent(_)
SciExponent(x) ==
    IF x.n >= 10 * x.d THEN SciExponent(Rat(x.n, x.d * 10)) + 1
    ELSE IF x.n < x.d THEN SciExponent(Rat(x.n * 10, x.d)) - 1
    ELSE 0

\* f"{x:.3e}" of a float x >= 0 that is not nan
FormatSci3(x) ==
    IF ~IsFinite(x) THEN [fmt |-> "inf"]
    ELSE IF x.n = 0 THEN [fmt |-> "sci", units |-> 0, exponent |-> 0]
    ELSE LET e == SciExponent(x)
             m == IF e >= 0 THEN Rat(x.n, x.d * Pow10(e))
                            ELSE Rat(x.n * Pow10(0 - e), x.d)
             u == RoundHalfEven(m.n * 1000, m.d)
         IN  IF u = 10000 THEN [fmt |-> "sci", units |-> 1000, exponent |-> e + 1]
                          ELSE [fmt |-> "sci", units |-> u, exponent |-> e]

\* the lambda of line 139: the format, or 'N/A' for a null
FormatOrNA(x, digits) == IF x = NaN THEN NotAvailable ELSE FormatFixed(x, digits)
FormatMae(x) == IF x = NaN THEN NotAvailable ELSE FormatSci3(x)

\* baseline_time / group["mean_iter_s"] for one row: a float division of
\* pandas, which gives inf for a zero divisor and raises nothing.
\* baseline_time is finite and positive here.
SpeedupRatioInverted(baseline, mean) == Rat(mean.n * baseline.d, mean.d * baseline.n)
SpeedupRatio(baseline, mean) ==
    IF mean.n = 0 THEN Inf ELSE Rat(baseline.n * mean.d, baseline.d * mean.n)

\* _speedup_col_fmt (lines 59-69)
SpeedupColFmt(speedup) ==
    IF speedup # NaN /\ (speedup = Inf \/ (IsFinite(speedup) /\ speedup.n >= speedup.d))
      THEN FormatFixed(speedup, 2)
    ELSE IF speedup # NaN /\ IsFinite(speedup) /\ speedup.n > 0 /\ speedup.n < speedup.d
      THEN [fmt |-> "inverse", of |-> FormatFixed(Rat(speedup.d, speedup.n), 2)]
    ELSE NotAvailable

StdColumn == "Std /Iter (s)"
MaeColumn == "MAE"
SpeedupColumn == "Speedup (vs NumbaCS)"

\* line 104: the Std column is added when the group's first row reports more
\* than one run and some row has a std
StdColumnShownAnyStd(g) == \E i \in 1..Len(g) : g[i].std_iter_s # NaN
StdColumnShown(g) ==
    /\ g[1].num_benchmark_runs > 1
    /\ \E i \in 1..Len(g) : g[i].std_iter_s # NaN

\* line 106
MaeColumnShown(g) == \E i \in 1..Len(g) : g[i].mae # NaN

\* group[group["package"] == SPEEDUP_BASELINE_PACKAGE]
BaselineRows(g) == SelectSeq(g, LAMBDA r : r.package = SPEEDUP_BASELINE_PACKAGE)

\* lines 108-119: the speedup column before formatting, one float per row
SpeedupValues(g) ==
    LET b == BaselineRows(g)
    IN  [i \in 1..Len(g) |->
           IF b # <<>> /\ IsFinite(b[1].mean_iter_s) /\ b[1].mean_iter_s.n > 0
             THEN SpeedupRatio(b[1].mean_iter_s, g[i].mean_iter_s)
             ELSE NaN]

\* lines 121-131: the columns in their order
OrderedCols(g) ==
    <<"Package", "Mean /Iter (s)">>
      \o (IF StdColumnShown(g) THEN <<StdColumn>> ELSE <<>>)
      \o <<SpeedupColumn>>
      \o (IF MaeColumnShown(g) THEN <<MaeColumn>> ELSE <<>>)

\* lines 132-140: one formatted cell
Cell(g, sp, i, col) ==
    CASE col = "Package" -> [fmt |-> "text", text |-> g[i].package]
      [] col = "Mean /Iter (s)" -> FormatOrNA(g[i].mean_iter_s, 4)
      [] col = StdColumn -> FormatOrNA(g[i].std_iter_s, 4)
      [] col = SpeedupColumn -> SpeedupColFmt(sp[i])
      [] col = MaeColumn -> FormatMae(g[i].mae)

\* lines 87-145: header line and table of one case.  speedups is the column
\* of line 113 before formatting, kept beside the printed rows.
CaseSection(d, c) ==
    LET g == Group(d, c)
        sp == SpeedupValues(g)
        cols == OrderedCols(g)
    IN  [case_id |-> c,
         header |-> [case_description |-> g[1].case_description,
                     iterates_per_run |-> g[1].iterates_per_run,
                     num_benchmark_runs |-> g[1].num_benchmark_runs],
         columns |-> cols,
         rows |-> [i \in 1..Len(g) |->
                     [col \in {cols[k] : k \in 1..Len(cols)} |-> Cell(g, sp, i, col)]],
         speedups |-> sp]

NoSection == [case_id |-> None]

\* lines 76-84
TStart ==
    /\ tpc = "start"
    /\ IF df = <<>>
         THEN /\ tpc' = "returned"
              /\ caseQueue' = <<>>
         ELSE /\ tpc' = "cases"
              /\ caseQueue' = SortedCaseIds(df)
    /\ UNCHANGED <<df, mdFiles, generated>>
    /\ UNCHANGED <<noxVars, runVars, matVars, loadVars, splVars, mainVars>>

\* lines 86-158, one pass of the loop: build the section of the next case
\* and write its file; an IOError is printed and the path is not returned
TCase ==
    /\ tpc = "cases"
    /\ caseQueue # <<>>
    /\ LET c == Head(caseQueue)
       IN  \E written \in BOOLEAN :
              IF written
                THEN /\ mdFiles' = [mdFiles EXCEPT ![c] = CaseSection(df, c)]
                     /\ generated' = Append(generated, c)
                ELSE UNCHANGED <<mdFiles, generated>>
    /\ caseQueue' = Tail(caseQueue)
    /\ UNCHANGED <<df, tpc>>
    /\ UNCHANGED <<noxVars, runVars, matVars, loadVars, splVars, mainVars>>

\* line 160
TReturn ==
    /\ tpc = "cases"
    /\ caseQueue = <<>>
    /\ tpc' = "returned"
    /\ UNCHANGED <<df, caseQueue, mdFiles, generated>>
    /\ UNCHANGED <<noxVars, runVars, matVars, loadVars, splVars, mainVars>>

InitTables ==
    /\ df \in DataFrames
    /\ tpc = "start"
    /\ caseQueue = <<>>
    /\ mdFiles = [c \in ReportCases |-> NoSection]
    /\ generated = <<>>
    /\ NoxIdle
    /\ RunnerIdle
    /\ MatlabIdle
    /\ LoadIdle
    /\ SpliceIdle
    /\ MainIdle

NextTables ==
    \/ TStart
    \/ TCase
    \/ TReturn

SpecTables == InitTables /\ [][NextTables]_vars

\* ---- claims about generate_md_tables ----
ColumnsOf(sec) == {sec.columns[k] : k \in 1..Len(sec.columns)}
HasStd(g) == \E i \in 1..Len(g) : g[i].std_iter_s # NaN
HasMae(g) == \E i \in 1..Len(g) : g[i].mae # NaN
HasBaseline(g) == \E i \in 1..Len(g) : g[i].package = SPEEDUP_BASELINE_PACKAGE
GeneratedCases == {generated[k] : k \in 1..Len(generated)}

IsBaselineOverMean(v, baseline, mean) ==
    IF mean.n = 0 THEN ~IsFinite(v)
    ELSE IsFinite(v) /\ RatMul(v, mean) = baseline

\* C17 as stated: the Speedup column is present only if the group has a
\* record of the baseline package, and then each row's value is the
\* baseline mean divided by the row's mean.
C17_SpeedupOriginal ==
    \A c \in GeneratedCases :
       LET g == Group(df, c)
           sec == mdFiles[c]
       IN  SpeedupColumn \in ColumnsOf(sec) =>
              /\ HasBaseline(g)
              /\ \A i \in 1..Len(g) :
                    IsBaselineOverMean(sec.speedups[i],
                                       BaselineRows(g)[1].mean_iter_s, g[i].mean_iter_s)

\* C17 amended: the Speedup column is present in every case's table.  When
\* the group has a record of the baseline package whose mean is positive,
\* each row's value is the mean of the first such record divided by the
\* row's mean; otherwise every row's cell is "N/A".
C17_Speedup ==
    \A c \in GeneratedCases :
       LET g == Group(df, c)
           sec == mdFiles[c]
           b == BaselineRows(g)
       IN  /\ SpeedupColumn \in ColumnsOf(sec)
           /\ \A i \in 1..Len(g) :
                 IF HasBaseline(g) /\ b[1].mean_iter_s.n > 0
                   THEN IsBaselineOverMean(sec.speedups[i], b[1].mean_iter_s,
                                           g[i].mean_iter_s)
                   ELSE sec.rows[i][SpeedupColumn] = NotAvailable

\* one case has no baseline record and its table still has the Speedup
\* column, holding "N/A"; the other has the baseline and a slower package
C17_Witness ==
    /\ tpc = "returned"
    /\ \E c \in GeneratedCases :
          /\ ~HasBaseline(Group(df, c))
          /\ SpeedupColumn \in ColumnsOf(mdFiles[c])
          /\ mdFiles[c].rows[1][SpeedupColumn] = NotAvailable
    /\ \E c \in GeneratedCases :
          /\ HasBaseline(Group(df, c))
          /\ mdFiles[c].speedups[1] = FromInt(1)

\* C18: a speedup ratio of at least 1.0 is printed with two decimals; a
\* ratio strictly between 0 and 1 as its reciprocal with two decimals,
\* tagged as an inverse; a row mean of 0, a missing baseline and a
\* non-positive baseline give "N/A".
C18_SpeedupRendering ==
    \A c \in GeneratedCases :
       LET g == Group(df, c)
           sec == mdFiles[c]
           b == BaselineRows(g)
       IN  \A i \in 1..Len(g) :
              LET cell == sec.rows[i][SpeedupColumn]
                  m == g[i].mean_iter_s
              IN  IF b = <<>> \/ b[1].mean_iter_s.n <= 0 \/ m.n = 0
                    THEN cell = NotAvailable
                    ELSE LET r == Rat(b[1].mean_iter_s.n * m.d, b[1].mean_iter_s.d * m.n)
                         IN  /\ r.n >= r.d =>
                                  cell = [fmt |-> "fixed", digits |-> 2, negative |-> FALSE,
                                          units |-> RoundHalfEven(100 * r.n, r.d)]
                             /\ (0 < r.n /\ r.n < r.d) =>
                                  cell = [fmt |-> "inverse",
                                          of |-> [fmt |-> "fixed", digits |-> 2,
                                                  negative |-> FALSE,
                                                  units |-> RoundHalfEven(100 * r.d, r.n)]]

(***************************************************************************)
(* src/readme_updater.py: assemble_and_update_readme.                      *)
(* A text is a sequence of tokens: "S" and "E" are the two placeholder     *)
(* comments, "n" a newline (any white space), "-" the rule "---", every    *)
(* other token a run of other characters.                                  *)
(***************************************************************************)
MaxDoc == 4
MaxCalls == 2

BENCHMARK_SECTION_START_PLACEHOLDER == "S"
BENCHMARK_SECTION_END_PLACEHOLDER == "E"

HostTokens ==
    {BENCHMARK_SECTION_START_PLACEHOLDER, BENCHMARK_SECTION_END_PLACEHOLDER, "x", "n"}
HostTexts == UNION {[1..n -> HostTokens] : n \in 0..MaxDoc}

\* a file: there or not, and its text
MissingFile == [exists |-> FALSE, text |-> <<>>]
FileOf(t) == [exists |-> TRUE, text |-> t]

\* section files as generate_md_tables leaves them, and one with blank
\* lines around its text
SectionTexts == {<<"a">>, <<"n", "b", "n">>}
TableFileLists ==
    UNION {[1..n -> {MissingFile} \cup {FileOf(t) : t \in SectionTexts}] :
             n \in 0..Cardinality(ReportCases)}

\* "No benchmark results to display at this time."
NoResultsText == <<"none">>
\* "\n\n---\n\n"
Separator == <<"n", "n", "-", "n", "n">>

\* str.strip()
RECURSIVE LStrip(_)
LStrip(t) == IF t # <<>> /\ Head(t) = "n" THEN LStrip(Tail(t)) ELSE t
RECURSIVE RStrip(_)
RStrip(t) ==
    IF t # <<>> /\ t[Len(t)] = "n" THEN RStrip(SubSeq(t, 1, Len(t) - 1)) ELSE t
Strip(t) == RStrip(LStrip(t))

\* sep.join(texts)
RECURSIVE Join(_, _)
Join(sep, texts) ==
    IF texts = <<>> THEN <<>>
    ELSE IF Len(texts) = 1 THEN texts[1]
    ELSE texts[1] \o sep \o Join(sep, Tail(texts))

\* lines 167-179: the files that can be read, joined
FullContent(files) ==
    IF files = <<>> THEN NoResultsText
    ELSE LET read == SelectSeq(files, LAMBDA f : f.exists)
         IN  Join(Separator, [i \in 1..Len(read) |-> read[i].text])

\* the smallest index >= from at which t holds tok, 0 when there is none
RECURSIVE IndexFrom(_, _, _)
IndexFrom(t, tok, from) ==
    IF from > Len(t) THEN 0
    ELSE IF t[from] = tok THEN from
    ELSE IndexFrom(t, tok, from + 1)

\* pattern.search (lines 189-194): (START)(.*?)(END) with DOTALL matches
\* from the first start placeholder that has an end placeholder after it
\* to the first end placeholder after it
SearchStartOnly(t) ==
    LET st == IndexFrom(t, BENCHMARK_SECTION_START_PLACEHOLDER, 1)
    IN  [found |-> st # 0, start |-> st, end |-> Len(t)]
Search(t) ==
    LET st == IndexFrom(t, BENCHMARK_SECTION_START_PLACEHOLDER, 1)
        en == IF st = 0 THEN 0
              ELSE IndexFrom(t, BENCHMARK_SECTION_END_PLACEHOLDER, st + 1)
    IN  [found |-> st # 0 /\ en # 0, start |-> st, end |-> en]

\* lines 203-204
UpdatedText(t, m, content) ==
    SubSeq(t, 1, m.start - 1)
      \o <<BENCHMARK_SECTION_START_PLACEHOLDER, "n", "n">> \o Strip(content)
      \o <<"n", "n", BENCHMARK_SECTION_END_PLACEHOLDER>>
      \o SubSeq(t, m.end + 1, Len(t))

\* line 206
NeedsWriteAlways(updated, t) == TRUE
NeedsWrite(updated, t) == updated # t

\* line 208
FinalContentAsIs(updated) == updated
FinalContent(updated) == Strip(updated) \o <<"n">>

\* the call returns: one entry of the log
SReturn(result, wrote, noop, after) ==
    /\ splLog' = Append(splLog, [result |-> result, wrote |-> wrote, noop |-> noop,
                                 before |-> readme, after |-> after])
    /\ readme' = after
    /\ splpc' = "returned"

\* lines 167-179
SAssemble ==
    /\ splpc = "call"
    /\ splLocal' = [content |-> FullContent(tableFiles), text |-> <<>>, updated |-> <<>>]
    /\ splpc' = "read"
    /\ UNCHANGED <<readme, tableFiles, splLog>>
    /\ UNCHANGED <<noxVars, runVars, matVars, loadVars, tabVars, mainVars>>

\* lines 182-187
SRead ==
    /\ splpc = "read"
    /\ IF readme.exists
         THEN /\ splLocal' = [splLocal EXCEPT !.text = readme.text]
              /\ splpc' = "search"
              /\ UNCHANGED <<readme, splLog>>
         ELSE /\ SReturn(FALSE, FALSE, FALSE, readme)
              /\ UNCHANGED splLocal
    /\ UNCHANGED tableFiles
    /\ UNCHANGED <<noxVars, runVars, matVars, loadVars, tabVars, mainVars>>

\* lines 189-204
SSearch ==
    /\ splpc = "search"
    /\ LET m == Search(splLocal.text)
       IN  IF m.found
             THEN /\ splLocal' = [splLocal EXCEPT
                                    !.updated = UpdatedText(splLocal.text, m, splLocal.content)]
                  /\ splpc' = "compare"
                  /\ UNCHANGED <<readme, splLog>>
             ELSE /\ SReturn(FALSE, FALSE, FALSE, readme)
                  /\ UNCHANGED splLocal
    /\ UNCHANGED tableFiles
    /\ UNCHANGED <<noxVars, runVars, matVars, loadVars, tabVars, mainVars>>

\* lines 206-215: the text differs and is written; open or write may fail,
\* a failed write leaving the file truncated
SWrite ==
    /\ splpc = "compare"
    /\ NeedsWrite(splLocal.updated, splLocal.text)
    /\ \E how \in {"written", "open_failed", "write_failed"} :
          CASE how = "written" ->
                 SReturn(TRUE, TRUE, FALSE, FileOf(FinalContent(splLocal.updated)))
            [] how = "open_failed" ->
                 SReturn(FALSE, FALSE, FALSE, readme)
            [] how = "write_failed" ->
                 SReturn(FALSE, TRUE, FALSE, FileOf(<<>>))
    /\ UNCHANGED <<tableFiles, splLocal>>
    /\ UNCHANGED <<noxVars, runVars, matVars, loadVars, tabVars, mainVars>>

\* lines 216-218: "No changes needed"
SNoChange ==
    /\ splpc = "compare"
    /\ ~NeedsWrite(splLocal.updated, splLocal.text)
    /\ SReturn(TRUE, FALSE, TRUE, readme)
    /\ UNCHANGED <<tableFiles, splLocal>>
    /\ UNCHANGED <<noxVars, runVars, matVars, loadVars, tabVars, mainVars>>

\* the report is run again on the same section files
SAgain ==
    /\ splpc = "returned"
    /\ Len(splLog) < MaxCalls
    /\ splpc' = "call"
    /\ UNCHANGED <<readme, tableFiles, splLocal, splLog>>
    /\ UNCHANGED <<noxVars, runVars, matVars, loadVars, tabVars, mainVars>>

InitSplice ==
    /\ readme \in {MissingFile} \cup {FileOf(t) : t \in HostTexts}
    /\ tableFiles \in TableFileLists
    /\ splpc = "call"
    /\ splLocal = [content |-> <<>>, text |-> <<>>, updated |-> <<>>]
    /\ splLog = <<>>
    /\ NoxIdle
    /\ RunnerIdle
    /\ MatlabIdle
    /\ LoadIdle
    /\ TablesIdle
    /\ MainIdle

NextSplice ==
    \/ SAssemble
    \/ SRead
    \/ SSearch
    \/ SWrite
    \/ SNoChange
    \/ SAgain

SpecSplice == InitSplice /\ [][NextSplice]_vars

\* ---- claims about assemble_and_update_readme ----
\* the text has a start placeholder and an end placeholder after it
HasMarkerPair(t) ==
    \E i, j \in 1..Len(t) :
       /\ i < j
       /\ t[i] = BENCHMARK_SECTION_START_PLACEHOLDER
       /\ t[j] = BENCHMARK_SECTION_END_PLACEHOLDER

\* C19: when a call has updated (or found up to date) a host document that
\* holds the placeholders, the next call on the same section files leaves
\* the document byte-identical, performs no write and reports that no
\* change was needed.
C19_Idempotent ==
    \A k \in 2..Len(splLog) :
       (splLog[k - 1].result /\ HasMarkerPair(splLog[k - 1].before.text)) =>
          /\ splLog[k].result
          /\ ~splLog[k].wrote
          /\ splLog[k].noop
          /\ splLog[k].before = splLog[k - 1].after
          /\ splLog[k].after = splLog[k - 1].after

\* the first call rewrote the document, the second found nothing to change
C19_Witness ==
    /\ Len(splLog) >= 2
    /\ splLog[1].result /\ splLog[1].wrote
    /\ splLog[1].after # splLog[1].before
    /\ splLog[2].noop
    /\ splLog[2].after = splLog[1].after

\* C20: for a host document that lacks the start placeholder, the end
\* placeholder, or an end placeholder after the start placeholder, the
\* call writes nothing and returns failure.
C20_NoMarkersNoWrite ==
    \A k \in 1..Len(splLog) :
       (splLog[k].before.exists /\ ~HasMarkerPair(splLog[k].before.text)) =>
          /\ ~splLog[k].result
          /\ ~splLog[k].wrote
          /\ ~splLog[k].noop
          /\ splLog[k].after = splLog[k].before

\* the document has both placeholders, the end one before the start one
C20_Witness ==
    /\ Len(splLog) >= 1
    /\ splLog[1].before.exists
    /\ \E i, j \in 1..Len(splLog[1].before.text) :
          /\ i < j
          /\ splLog[1].before.text[i] = BENCHMARK_SECTION_END_PLACEHOLDER
          /\ splLog[1].before.text[j] = BENCHMARK_SECTION_START_PLACEHOLDER
    /\ ~HasMarkerPair(splLog[1].before.text)
    /\ ~splLog[1].result
    /\ splLog[1].after = splLog[1].before

(***************************************************************************)
(* src/readme_updater.py: main.  The results directory is loaded, the      *)
(* section files are generated and, unless the mode is tables-only, the    *)
(* host document is updated from them.                                     *)
(***************************************************************************)
MainModes == {"all", "tables-only"}

\* the results directories main is run on: complete result documents and
\* one file that is not JSON
MainFiles ==
    [name : {"results"},
     doc : {d \in ObjectDocs : d.desc # <<>> /\ d.std # <<>> /\ d.errKey = None}
             \cup {[kind |-> "malformed"]}]
MainDirectories == UNION {[1..n -> MainFiles] : n \in 0..MaxFiles}

\* the text of the section file of a case: header_line, a blank line and the
\* table (line 144), one run of characters with no white space at either
\* end; the token names the case, mdFiles holds what the text says
SectionText(c) == <<c>>

\* the host documents main is run on: none, short ones, and the ones an
\* earlier report of one case left
MainReadmes ==
    {MissingFile}
      \cup {FileOf(t) : t \in {h \in HostTexts : Len(h) <= 2}}
      \cup {FileOf(<<BENCHMARK_SECTION_START_PLACEHOLDER, "n", "n">> \o SectionText(c)
                      \o <<"n", "n", BENCHMARK_SECTION_END_PLACEHOLDER, "n">>) :
               c \in ReportCases}

\* line 222 has returned; lines 223-226, then parse_args and the call of
\* generate_md_tables (lines 243 and 250)
MainLoaded ==
    /\ mainpc = "load"
    /\ lpc = "returned"
    /\ IF allData = <<>>
         THEN /\ mainpc' = "done"
              /\ mainOut' = "No benchmark data processed."
              /\ mainExit' = 0
              /\ UNCHANGED <<df, tpc>>
         ELSE /\ mainpc' = "tables"
              /\ df' = allData
              /\ tpc' = "start"
              /\ UNCHANGED <<mainOut, mainExit>>
    /\ UNCHANGED <<mainMode, caseQueue, mdFiles, generated>>
    /\ UNCHANGED <<noxVars, runVars, matVars, loadVars, splVars>>

\* generate_md_tables has returned: lines 244-247 or lines 252-260
MainTablesDone ==
    /\ mainpc = "tables"
    /\ tpc = "returned"
    /\ IF generated = <<>>
         THEN /\ mainpc' = "done"
              /\ mainOut' = "No individual case markdown files were generated."
              /\ mainExit' = 0
              /\ UNCHANGED splVars
         ELSE IF mainMode = "tables-only"
         THEN /\ mainpc' = "done"
              /\ mainOut' = "Process complete."
              /\ mainExit' = 0
              /\ UNCHANGED splVars
         ELSE /\ mainpc' = "splice"
              /\ tableFiles' = [i \in 1..Len(generated) |->
                                  FileOf(SectionText(generated[i]))]
              /\ splpc' = "call"
              /\ UNCHANGED <<readme, splLocal, splLog, mainOut, mainExit>>
    /\ UNCHANGED mainMode
    /\ UNCHANGED <<noxVars, runVars, matVars, loadVars, tabVars>>

\* lines 260-262: the value assemble_and_update_readme returned is dropped
MainSpliceDone ==
    /\ mainpc = "splice"
    /\ splpc = "returned"
    /\ mainpc' = "done"
    /\ mainOut' = "Process complete."
    /\ mainExit' = 0
    /\ UNCHANGED mainMode
    /\ UNCHANGED <<noxVars, runVars, matVars, loadVars, tabVars, splVars>>

InitReport ==
    /\ dir \in MainDirectories
    /\ lpc = "start"
    /\ lpos = 0
    /\ allData = <<>>
    /\ loadedFrom = <<>>
    /\ lraised = FALSE
    /\ df = <<>>
    /\ tpc = "off"
    /\ caseQueue = <<>>
    /\ mdFiles = [c \in ReportCases |-> NoSection]
    /\ generated = <<>>
    /\ readme \in MainReadmes
    /\ tableFiles = <<>>
    /\ splpc = "off"
    /\ splLocal = [content |-> <<>>, text |-> <<>>, updated |-> <<>>]
    /\ splLog = <<>>
    /\ mainpc = "load"
    /\ mainMode \in MainModes
    /\ mainOut = None
    /\ mainExit = 0 - 1
    /\ NoxIdle
    /\ RunnerIdle
    /\ MatlabIdle

NextReport ==
    \/ LGlob
    \/ LAppend
    \/ LSkipBad
    \/ LReturn
    \/ MainLoaded
    \/ TStart
    \/ TCase
    \/ TReturn
    \/ MainTablesDone
    \/ SAssemble
    \/ SRead
    \/ SSearch
    \/ SWrite
    \/ SNoChange
    \/ MainSpliceDone

SpecReport == InitReport /\ [][NextReport]_vars

\* ---- claims about main ----
\* main has finished after a call of assemble_and_update_readme that found
\* the host document without its pair of placeholders
MarkersWereAbsent ==
    /\ mainpc = "done"
    /\ splLog # <<>>
    /\ splLog[1].before.exists
    /\ ~HasMarkerPair(splLog[1].before.text)

\* C21: when the host document holds no pair of placeholders, the report
\* run ends as a failure: its exit status is not 0 and it does not print
\* that the process is complete.
C21_MarkersAbsentFatal ==
    MarkersWereAbsent => (mainExit # 0 /\ mainOut # "Process complete.")

\* the case ids of the records
DistinctCases(d) == {d[i].case_id : i \in 1..Len(d)}
\* the cases whose section file is on disk
WrittenCases == {c \in ReportCases : mdFiles[c] # NoSection}
\* string order of the case ids
LexLess(a, b) == a = "dg_ftle" /\ b = "qge_ftle"
CaseSeqs == UNION {[1..n -> ReportCases] : n \in 0..Cardinality(ReportCases)}
\* cs lists the cases of S once each, in ascending order
ListsAscending(cs, S) ==
    /\ {cs[i] : i \in 1..Len(cs)} = S
    /\ \A i, j \in 1..Len(cs) : i < j => LexLess(cs[i], cs[j])
\* the joined block of the sections of the cases of cs
BlockOf(cs) == Join(Separator, [i \in 1..Len(cs) |-> SectionText(cs[i])])
\* main has had assemble_and_update_readme join the section files
BlockAssembled == mainpc \in {"splice", "done"} /\ splpc \notin {"off", "call"}

\* C22 as stated: once generate_md_tables has returned, every distinct case
\* id of the records has its section in its own file, and the combined block
\* is the join, by the rule, of the sections of all those case ids in
\* ascending order.
C22_BlockOriginal ==
    /\ (mainpc # "load" /\ tpc = "returned") =>
          \A c \in DistinctCases(df) : mdFiles[c] = CaseSection(df, c)
    /\ BlockAssembled =>
          \E cs \in CaseSeqs : /\ ListsAscending(cs, DistinctCases(df))
                               /\ splLocal.content = BlockOf(cs)

\* C22: the section files on disk are those of distinct case ids of the
\* records, each file named by its case id holds the section of that case,
\* and the combined block is the join, by the rule, of the sections of the
\* cases whose file was written, in ascending order of case id.
C22_Block ==
    /\ (mainpc # "load" /\ tpc = "returned") =>
          /\ WrittenCases \subseteq DistinctCases(df)
          /\ \A c \in WrittenCases : mdFiles[c] = CaseSection(df, c)
    /\ BlockAssembled =>
          \E cs \in CaseSeqs : /\ ListsAscending(cs, WrittenCases)
                               /\ splLocal.content = BlockOf(cs)

\* records of both cases, loaded with the later case id first, both section
\* files written and the block assembled
C22_Witness ==
    /\ BlockAssembled
    /\ Len(df) = 2
    /\ df[1].case_id = "qge_ftle"
    /\ df[2].case_id = "dg_ftle"
    /\ WrittenCases = ReportCases
    /\ splLocal.content = SectionText("dg_ftle") \o Separator \o SectionText("qge_ftle")

\* ---- claims about the statistics of several runs ----
\* the product of the denominators of fractions
RECURSIVE ProdDen(_)
ProdDen(xs) == IF xs = <<>> THEN 1 ELSE xs[1].d * ProdDen(Tail(xs))
RECURSIVE SumInts(_)
SumInts(ks) == IF ks = <<>> THEN 0 ELSE ks[1] + SumInts(Tail(ks))

\* m is the arithmetic mean of the finite fractions xs: Len(xs) * m is
\* their sum, both sides brought to the denominator ProdDen(xs) * m.d
IsMeanOf(m, xs) ==
    LET L == ProdDen(xs)
    IN  /\ IsFinite(m)
        /\ Len(xs) * m.n * L
             = m.d * SumInts([i \in 1..Len(xs) |-> xs[i].n * (L \div xs[i].d)])

\* v is the population variance of the finite fractions xs about m:
\* Len(xs) * v is the sum of the squared deviations from m
IsPopulationVarianceOf(v, m, xs) ==
    LET L == ProdDen(xs)
        dev == [i \in 1..Len(xs) |-> xs[i].n * (L \div xs[i].d) * m.d - m.n * L]
    IN  /\ IsFinite(v)
        /\ Len(xs) * v.n * (L * m.d) * (L * m.d)
             = v.d * SumInts([i \in 1..Len(xs) |-> dev[i] * dev[i]])

\* C23: a ResultDocument written with runs-per-benchmark > 1 holds one
\* per-iterate sample per run, each the duration of that run divided by
\* iterates-per-run; its mean-iterate-time is the arithmetic mean of those
\* samples and its std-iterate-time their population standard deviation,
\* the root of the sum of squared deviations divided by the number of runs.
\* (With iterates-per-run = 0 the quotients are not finite.)
C23_ManyRunStats ==
    \A q \in Paths :
       (fs[q].kind = "result" /\ fs[q].params.num_benchmark_runs > 1) =>
          LET t == fs[q].timings
              k == fs[q].params.iterates_per_run
              n == fs[q].params.num_benchmark_runs
          IN  /\ Len(loopTimes) = n
              /\ Len(t.per_iter_times) = n
              /\ IF k = 0
                   THEN \A i \in 1..n : ~IsFinite(t.per_iter_times[i])
                   ELSE /\ \A i \in 1..n :
                              /\ IsFinite(t.per_iter_times[i])
                              /\ t.per_iter_times[i].n * k
                                   = loopTimes[i] * t.per_iter_times[i].d
                        /\ IsMeanOf(t.mean_per_iter_time, t.per_iter_times)
                        /\ IsPopulationVarianceOf(t.std_per_iter_time.sq,
                                                  t.mean_per_iter_time,
                                                  t.per_iter_times)

\* two runs of 2 iterates that took 1 and 2 time units: samples 1/2 and 1,
\* mean 3/4, standard deviation 1/4
C23_Witness ==
    /\ rpc = "exit0"
    /\ fs["out"].kind = "result"
    /\ cfg.runs = 2
    /\ cfg.iter = 2
    /\ loopTimes = <<1, 2>>
    /\ fs["out"].timings.mean_per_iter_time = [n |-> 3, d |-> 4]
    /\ fs["out"].timings.std_per_iter_time = [sq |-> [n |-> 1, d |-> 16]]

\* ---- claims about what a splice leaves alone ----
\* the placeholders the splice works between: the first start placeholder
\* and the first end placeholder after it
StartMarkerAt(t) ==
    CHOOSE i \in 1..Len(t) :
       /\ t[i] = BENCHMARK_SECTION_START_PLACEHOLDER
       /\ \A k \in 1..(i - 1) : t[k] # BENCHMARK_SECTION_START_PLACEHOLDER
EndMarkerAt(t) ==
    CHOOSE j \in (StartMarkerAt(t) + 1)..Len(t) :
       /\ t[j] = BENCHMARK_SECTION_END_PLACEHOLDER
       /\ \A k \in (StartMarkerAt(t) + 1)..(j - 1) :
             t[k] # BENCHMARK_SECTION_END_PLACEHOLDER
BeforeStartMarker(t) == SubSeq(t, 1, StartMarkerAt(t) - 1)
AfterEndMarker(t) == SubSeq(t, EndMarkerAt(t) + 1, Len(t))

\* text is: head, the start placeholder, anything, the end placeholder, tail
Frames(text, head, tail) ==
    /\ Len(text) >= Len(head) + Len(tail) + 2
    /\ SubSeq(text, 1, Len(head) + 1)
         = head \o <<BENCHMARK_SECTION_START_PLACEHOLDER>>
    /\ SubSeq(text, Len(text) - Len(tail), Len(text))
         = <<BENCHMARK_SECTION_END_PLACEHOLDER>> \o tail

\* the calls that returned True
SuccessfulSplices == {k \in 1..Len(splLog) : splLog[k].result}

MatlabCellFailed == mpc = "done" /\ mexit # 0

\* C25: when the run of a cell has ended in failure, no ResultDocument is
\* on disk at the cell's output path, so that a ResultDocument of an earlier
\* successful run cannot be loaded by a later aggregation.
C25_NoStaleResult == MatlabCellFailed => mresult # "result"

\* ---- claims about the order the directory scan returns the files in ----
\* the orders a scan can return n files in
ScanOrders(n) == {p \in [1..n -> 1..n] : \A i, j \in 1..n : i # j => p[i] # p[j]}
\* the DataFrame of the same documents scanned in the order p
Rescanned(d, p) == [i \in 1..Len(d) |-> d[p[i]]]
\* one result document per (package, case) pair
OnePerCell(d) ==
    \A i, j \in 1..Len(d) :
       i # j => <<d[i].package, d[i].case_id>> # <<d[j].package, d[j].case_id>>

\* C26: the sections generate_md_tables has written (header values, rows
\* and their order) are the ones it would have written had the scan of the
\* results directory returned the same documents in any other order.
C26_ScanOrderIndependent ==
    (tpc = "returned" /\ OnePerCell(df)) =>
       \A p \in ScanOrders(Len(df)) :
          \A c \in WrittenCases : mdFiles[c] = CaseSection(Rescanned(df, p), c)

(***************************************************************************)
(* noxfile.py run more than once: every invocation of nox imports the      *)
(* file anew, registers the sessions again and runs them; what is on disk  *)
(* stays.                                                                  *)
(***************************************************************************)
MaxNoxRuns == 2

NoxAgain ==
    /\ NoxDone
    /\ noxRun < MaxNoxRuns
    /\ noxRun' = noxRun + 1
    /\ loopPos' = 1
    /\ sessions' = <<>>
    /\ sessionNames' = <<>>
    /\ skipLog' = <<>>
    /\ cur' = 1
    /\ started' = [c \in AllPairs |-> 0]
    /\ runnerCalls' = [c \in AllPairs |-> 0]
    /\ outcome' = [c \in AllPairs |-> "pending"]
    /\ warned' = {}
    /\ UNCHANGED <<supported, lcstoolEnv, spc, runResult, tmpFiles, tmpCreated, outPaths>>
    /\ UNCHANGED <<runVars, toolVars>>

NextRerun == Next \/ NoxAgain

SpecRerun == Init /\ [][NextRerun]_vars

\* ---- claims about the identity of a cell ----
\* C27: the registered sessions of distinct (package, case) cells have
\* distinct names; the result file paths computed for distinct cells are
\* distinct, in one invocation and across invocations; and every run of the
\* same cell computes the same path.
C27_CellIdentity ==
    /\ Len(sessionNames) = Len(sessions)
    /\ \A i, j \in 1..Len(sessions) :
          i # j => /\ sessions[i] # sessions[j]
                   /\ sessionNames[i] # sessionNames[j]
    /\ \A c, d \in AllPairs :
          c # d => Range(outPaths[c]) \cap Range(outPaths[d]) = {}
    /\ \A c \in AllPairs :
          \A i, j \in 1..Len(outPaths[c]) : outPaths[c][i] = outPaths[c][j]

\* the second invocation has computed the path of a cell a second time, and
\* both cells of another package have had theirs computed
C27_Witness ==
    /\ noxRun = 2
    /\ Len(sessions) >= 3
    /\ Len(outPaths[<<"NumbaCS", "dg_ftle">>]) = 2
    /\ outPaths[<<"Dynlab", "dg_ftle">>] # <<>>
    /\ outPaths[<<"Dynlab", "qge_ftle">>] # <<>>

=============================================================================
